---- MODULE Spec2Model ----
(***************************************************************************)
(* Model of the money-muling detection pipeline, analyzeTransactions in    *)
(* backend/src/detection-engine.ts, with its enrichment passes             *)
(* (temporal-cycle-validation, centrality-analysis,                        *)
(* multi-stage-flow-analysis).  One action per pipeline stage; the         *)
(* detectors and helpers are operators that follow the code's loops.       *)
(*                                                                         *)
(* Timestamps are whole hours since an arbitrary epoch and Time(ts), the   *)
(* code's new Date(ts).getTime(), is counted in hours too, so every        *)
(* duration of the code is divided by 3600000.  Amounts are whole dollars. *)
(***************************************************************************)
EXTENDS Integers, Sequences, FiniteSets, TLC

VARIABLES
    transactions,   \* the input list (RawTransaction[])
    mode,           \* DetectionMode
    pc,             \* position of analyzeTransactions
    allNodes,       \* Array.from(graph.keys()), insertion order
    graph,          \* node -> ordered list of its out-neighbours
    accountMap,     \* account id -> AccountNode
    cycles,         \* detectCycles(...).cycles
    ringMap,        \* detectCycles(...).ringMap
    fanInMap,       \* detectFanIn(...), entries in insertion order
    fanOutMap,      \* detectFanOut(...), entries in insertion order
    shellChains,    \* detectShellChains(...).chains
    shellNodes,     \* detectShellChains(...).shellNodes
    fraudRings,     \* the fraudRings array
    result,         \* the returned AnalysisResult (accounts, summary)
    adjustment,     \* what relationship intelligence subtracts on this input
    run,            \* which call of analyzeTransactions on this input
    firstResult,    \* what the first call returned
    csv             \* the state of a call of validateAndParseCSV

vars == <<transactions, mode, pc, allNodes, graph, accountMap, cycles, ringMap,
          fanInMap, fanOutMap, shellChains, shellNodes, fraudRings, result,
          adjustment, run, firstResult, csv>>

(***************************************************************************)
(* Generic helpers (Array.prototype.includes, Set from array, reduce).     *)
(***************************************************************************)
Range(s) == {s[i] : i \in 1..Len(s)}

Includes(s, x) == \E i \in 1..Len(s) : s[i] = x

PushUnique(s, x) == IF Includes(s, x) THEN s ELSE Append(s, x)

Min(a, b) == IF a < b THEN a ELSE b

Max(a, b) == IF a > b THEN a ELSE b

\* the sum of s[lo..hi], split in halves
RECURSIVE SumRange(_, _, _)
SumRange(s, lo, hi) ==
    IF lo > hi THEN 0
    ELSE IF lo = hi THEN s[lo]
    ELSE LET mid == (lo + hi) \div 2
         IN SumRange(s, lo, mid) + SumRange(s, mid + 1, hi)

SumSeq(s) == SumRange(s, 1, Len(s))

\* Math.round(num / den) for num >= 0, den > 0 (round half up)
RoundDiv(num, den) == (2 * num + den) \div (2 * den)

\* a function with its values computed once: TLC keeps [x \in S |-> e]
\* unevaluated and evaluates e again at every application
Stored(f) == f @@ f

\* the keys of a Map or Set filled in this order: first occurrences, in order
FirstOccurrences(e) ==
    LET firsts == SelectSeq([j \in 1..Len(e) |-> j],
                            LAMBDA j : \A k \in 1..(j - 1) : e[k] # e[j])
    IN Stored([j \in 1..Len(firsts) |-> e[firsts[j]]])

\* order-preserving removal of duplicates ([...new Set(arr)])
Dedup(s) == FirstOccurrences(s)

\* Array.prototype.sort with a comparator: a stable sort, the element at
\* index j goes after those that compare before it and after the equal
\* ones of smaller index
StableSort(s, Before(_, _)) ==
    LET rank(j) == Cardinality({i \in 1..Len(s) :
                      Before(s[i], s[j]) \/ (~Before(s[j], s[i]) /\ i < j)})
    IN Stored([k \in 1..Len(s) |-> s[CHOOSE j \in 1..Len(s) : rank(j) = k - 1]])

(***************************************************************************)
(* Program constants.                                                      *)
(***************************************************************************)
Window72h == 72

OneDay == 24

MinFanCount == 10

MaxCycleLen == 5

MinCycleLen == 3

ShellMaxTx == 3

MaxChainPath == 6

\* a while loop of the code runs at most 2^LoopDepth iterations
LoopDepth == 8

Time(ts) == ts

\* `RING_${String(n).padStart(3, '0')}`
PadStart3(s) ==
    IF Len(s) >= 3 THEN s
    ELSE IF Len(s) = 2 THEN "0" \o s
    ELSE IF Len(s) = 1 THEN "00" \o s
    ELSE "000"

RingId(n) == "RING_" \o PadStart3(ToString(n))

CommRingId(n) == "RING_COMM_" \o PadStart3(ToString(n))

(***************************************************************************)
(* buildAdjacencyList: keys in insertion order, neighbours in insertion    *)
(* order, the transactions of an edge in input order.                      *)
(***************************************************************************)
\* graph.keys(): sender, then receiver, of each transaction in turn
GraphKeys(txs) ==
    FirstOccurrences([j \in 1..(2 * Len(txs)) |->
                        IF j % 2 = 1 THEN txs[(j + 1) \div 2].sender_id
                        ELSE txs[j \div 2].receiver_id])

\* graph.get(n).keys()
NeighborKeys(txs, n) ==
    LET out == SelectSeq(txs, LAMBDA tx : tx.sender_id = n)
    IN FirstOccurrences([j \in 1..Len(out) |-> out[j].receiver_id])

buildAdjacencyList(txs) ==
    Stored([n \in Range(GraphKeys(txs)) |-> NeighborKeys(txs, n)])

EdgeTxs(txs, from, to) ==
    SelectSeq(txs, LAMBDA tx : tx.sender_id = from /\ tx.receiver_id = to)

(***************************************************************************)
(* 1. detectCycles: DFS with an explicit stack from every start node,      *)
(* depth limit 5, deduplicated by the sorted node-set signature.           *)
(***************************************************************************)
\* [...cycle].sort().join(',')
CycleKey(cycle) == Range(cycle)

\* a detector that closes no cycle of fewer than 4 accounts
ClosesCycleFromFour(path) == Len(path) >= MinCycleLen + 1

ClosesCycle(path) == Len(path) >= MinCycleLen

\* for (const neighbor of neighbors.keys()), st = [i, stack, found]
RECURSIVE CycleNeighbors(_, _, _, _)
CycleNeighbors(nbrs, startNode, path, st) ==
    IF st.i > Len(nbrs) THEN [stack |-> st.stack, found |-> st.found]
    ELSE LET nb == nbrs[st.i]
         IN IF nb = startNode /\ ClosesCycle(path)
            THEN CycleNeighbors(nbrs, startNode, path,
                    [st EXCEPT
                       !.i = @ + 1,
                       !.found = IF CycleKey(path) \in @.keys THEN @
                                 ELSE [keys |-> @.keys \cup {CycleKey(path)},
                                       cycles |-> Append(@.cycles, path)]])
            ELSE IF ~Includes(path, nb) /\ Len(path) < MaxCycleLen
            THEN CycleNeighbors(nbrs, startNode, path,
                    [st EXCEPT !.i = @ + 1,
                               !.stack = Append(@, Append(path, nb))])
            ELSE CycleNeighbors(nbrs, startNode, path, [st EXCEPT !.i = @ + 1])

\* one iteration of while (stack.length > 0): pop a path and visit the
\* neighbours of its last node
CycleStep(g, startNode, st) ==
    LET path == st.stack[Len(st.stack)]
        rest == SubSeq(st.stack, 1, Len(st.stack) - 1)
        node == path[Len(path)]
    IN IF Len(path) > MaxCycleLen THEN [stack |-> rest, found |-> st.found]
       ELSE CycleNeighbors(g[node], startNode, path,
                           [i |-> 1, stack |-> rest, found |-> st.found])

\* the while loop: up to 2^k iterations, run as two halves of 2^(k-1) so
\* that the evaluation nests k deep however long the loop runs
RECURSIVE CycleDFS(_, _, _, _)
CycleDFS(g, startNode, st, k) ==
    IF st.stack = <<>> THEN st
    ELSE IF k = 0 THEN CycleStep(g, startNode, st)
    ELSE CycleDFS(g, startNode, CycleDFS(g, startNode, st, k - 1), k - 1)

\* for (const startNode of allNodes), st = [i, found]
RECURSIVE CycleStarts(_, _, _)
CycleStarts(g, nodes, st) ==
    IF st.i > Len(nodes) THEN st.found
    ELSE CycleStarts(g, nodes,
            [i |-> st.i + 1,
             found |-> CycleDFS(g, nodes[st.i],
                                [stack |-> <<<<nodes[st.i]>>>>, found |-> st.found],
                                LoopDepth).found])

\* ids of the cycles (by index) that contain the node, in cycle order
CycleRingIdsOf(cs, n) ==
    LET idx == SelectSeq([i \in 1..Len(cs) |-> i], LAMBDA i : Includes(cs[i], n))
    IN [k \in 1..Len(idx) |-> RingId(idx[k])]

detectCycles(g, nodes) ==
    LET cs == CycleStarts(g, nodes, [i |-> 1, found |-> [keys |-> {}, cycles |-> <<>>]]).cycles
        members == UNION {Range(cs[i]) : i \in 1..Len(cs)}
    IN [cycles |-> cs, ringMap |-> [n \in members |-> CycleRingIdsOf(cs, n)]]

(***************************************************************************)
(* 2./3. detectFanIn and detectFanOut: per receiver (sender) a stable sort *)
(* by time and a two-pointer window of 72 hours; the first window with at  *)
(* least 10 distinct counterparties is recorded.                           *)
(***************************************************************************)
\* .sort((a, b) => time(a) - time(b))
SortByTime(txs) ==
    StableSort(txs, LAMBDA a, b : Time(a.timestamp) < Time(b.timestamp))

\* the keys of the grouping Map: receivers (senders) in order of appearance
GroupKeys(txs, field) == FirstOccurrences([i \in 1..Len(txs) |-> txs[i][field]])

\* a window that leaves out transactions exactly 72 h apart
OutsideWindowStrict(rightTime, leftTime) == rightTime - leftTime >= Window72h

\* rightTime - new Date(sorted[left].timestamp).getTime() > window72h
OutsideWindow(rightTime, leftTime) == rightTime - leftTime > Window72h

RECURSIVE SlideLeft(_, _, _)
SlideLeft(sorted, left, right) ==
    IF left < right /\ OutsideWindow(Time(sorted[right].timestamp),
                                     Time(sorted[left].timestamp))
    THEN SlideLeft(sorted, left + 1, right)
    ELSE left

InWindow(sorted, left, right, field) ==
    Dedup([i \in 1..(right - left + 1) |-> sorted[left + i - 1][field]])

\* the scan that keeps sliding after the first window that triggers and
\* records the last one
RECURSIVE ScanWindowsLast(_, _, _, _)
ScanWindowsLast(sorted, left, right, field) ==
    IF right > Len(sorted) THEN [found |-> FALSE]
    ELSE LET l == SlideLeft(sorted, left, right)
             inWindow == InWindow(sorted, l, right, field)
             later == ScanWindowsLast(sorted, l, right + 1, field)
         IN IF later.found THEN later
            ELSE IF Len(inWindow) >= MinFanCount
                 THEN [found |-> TRUE, members |-> inWindow,
                       windowStart |-> sorted[l].timestamp,
                       windowEnd |-> sorted[right].timestamp]
                 ELSE [found |-> FALSE]

RECURSIVE ScanWindows(_, _, _, _)
ScanWindows(sorted, left, right, field) ==
    IF right > Len(sorted) THEN [found |-> FALSE]
    ELSE LET l == SlideLeft(sorted, left, right)
             inWindow == InWindow(sorted, l, right, field)
         IN IF Len(inWindow) >= MinFanCount
            THEN [found |-> TRUE, members |-> inWindow,
                  windowStart |-> sorted[l].timestamp,
                  windowEnd |-> sorted[right].timestamp]
            ELSE ScanWindows(sorted, l, right + 1, field)

\* the window of one hub, if any
FanWindow(txs, groupField, memberField, key) ==
    ScanWindows(SortByTime(SelectSeq(txs, LAMBDA tx : tx[groupField] = key)),
                1, 1, memberField)

\* for (const [hub, txs] of the grouping Map): the hubs with a window
FanEntries(txs, keys, groupField, memberField) ==
    LET w == Stored([i \in 1..Len(keys) |->
                        FanWindow(txs, groupField, memberField, keys[i])])
        hit == SelectSeq([i \in 1..Len(keys) |-> i], LAMBDA i : w[i].found)
    IN [k \in 1..Len(hit) |->
          [hub |-> keys[hit[k]], members |-> w[hit[k]].members,
           windowStart |-> w[hit[k]].windowStart,
           windowEnd |-> w[hit[k]].windowEnd]]

detectFanIn(txs) ==
    FanEntries(txs, GroupKeys(txs, "receiver_id"), "receiver_id", "sender_id")

detectFanOut(txs) ==
    FanEntries(txs, GroupKeys(txs, "sender_id"), "sender_id", "receiver_id")

FanHas(fanMap, id) == \E i \in 1..Len(fanMap) : fanMap[i].hub = id

FanGet(fanMap, id) == fanMap[CHOOSE i \in 1..Len(fanMap) : fanMap[i].hub = id]

(***************************************************************************)
(* 4. detectShellChains: BFS from every account with a visited set; a path *)
(* of at least 4 nodes whose intermediates all have <= 3 transactions is a *)
(* chain; the search continues only through low-activity nodes.            *)
(***************************************************************************)
\* a shell account with one transaction more
IsLowActivityLoose(account) == account.total_transactions <= ShellMaxTx + 1

\* account.total_transactions <= 3
IsLowActivity(account) == account.total_transactions <= ShellMaxTx

MinChainPath(newPath) == Len(newPath) >= 4

RECURSIVE ShellNeighbors(_, _, _, _, _)
ShellNeighbors(nbrs, i, path, low, st) ==
    IF i > Len(nbrs) THEN st
    ELSE LET nb == nbrs[i]
         IN IF nb \in st.visited THEN ShellNeighbors(nbrs, i + 1, path, low, st)
            ELSE LET newPath == Append(path, nb)
                     intermediates == SubSeq(newPath, 2, Len(newPath) - 1)
                     isChain == /\ MinChainPath(newPath)
                                /\ \A k \in 1..Len(intermediates) : intermediates[k] \in low
                                /\ Len(intermediates) >= 1
                 IN ShellNeighbors(nbrs, i + 1, path, low,
                      [visited |-> st.visited \cup {nb},
                       chains |-> IF isChain THEN Append(st.chains, newPath)
                                  ELSE st.chains,
                       shellNodes |-> IF isChain
                                      THEN st.shellNodes \cup Range(intermediates)
                                      ELSE st.shellNodes,
                       queue |-> IF nb \in low /\ Len(newPath) < MaxChainPath
                                 THEN Append(st.queue, newPath)
                                 ELSE st.queue])

RECURSIVE ShellBFS(_, _, _)
ShellBFS(g, low, st) ==
    IF st.queue = <<>> THEN st
    ELSE LET path == Head(st.queue)
             node == path[Len(path)]
             st0 == [st EXCEPT !.queue = Tail(st.queue)]
         IN IF Len(path) > MaxChainPath THEN ShellBFS(g, low, st0)
            ELSE ShellBFS(g, low, ShellNeighbors(g[node], 1, path, low, st0))

\* for (const startNode of allNodes), st = [i, chains, shellNodes]
RECURSIVE ShellStarts(_, _, _, _)
ShellStarts(g, low, nodes, st) ==
    IF st.i > Len(nodes) THEN [chains |-> st.chains, shellNodes |-> st.shellNodes]
    ELSE LET r == ShellBFS(g, low, [visited |-> {nodes[st.i]},
                                    queue |-> <<<<nodes[st.i]>>>>,
                                    chains |-> st.chains,
                                    shellNodes |-> st.shellNodes])
         IN ShellStarts(g, low, nodes,
                        [i |-> st.i + 1, chains |-> r.chains,
                         shellNodes |-> r.shellNodes])

detectShellChains(g, accounts, nodes) ==
    LET lowActivityNodes == {id \in DOMAIN accounts : IsLowActivity(accounts[id])}
    IN ShellStarts(g, lowActivityNodes, nodes,
                   [i |-> 1, chains |-> <<>>, shellNodes |-> {}])

(***************************************************************************)
(* Account map construction and per-node metrics (analyzeTransactions,     *)
(* before the detectors run).                                              *)
(***************************************************************************)
NoCentrality == 0 - 1

NewAccount(txs, g, id) ==
    [account_id |-> id,
     total_transactions |->
        Len(SelectSeq(txs, LAMBDA tx : tx.sender_id = id))
        + Len(SelectSeq(txs, LAMBDA tx : tx.receiver_id = id)),
     in_degree |-> Cardinality({n \in DOMAIN g : Includes(g[n], id)}),
     out_degree |-> Len(g[id]),
     total_amount_sent |->
        SumSeq([i \in 1..Len(txs) |->
                  IF txs[i].sender_id = id THEN txs[i].amount ELSE 0]),
     total_amount_received |->
        SumSeq([i \in 1..Len(txs) |->
                  IF txs[i].receiver_id = id THEN txs[i].amount ELSE 0]),
     suspicion_score |-> 0,
     pattern_scores |-> [fan_in |-> 0, fan_out |-> 0, cycle |-> 0, shell |-> 0,
                         velocity |-> 0],
     detected_patterns |-> <<>>,
     ring_ids |-> <<>>,
     triggered_algorithms |-> <<>>,
     explanation |-> <<>>,
     is_suspicious |-> FALSE,
     centrality_score |-> NoCentrality,
     ring_role |-> "undefined",
     laundering_stage |-> "undefined",
     flow_pattern |-> <<>>,
     fan_in_promotion |-> "none"]

(***************************************************************************)
(* 5. calculateSuspicionScores.                                            *)
(***************************************************************************)
CycleWeight == 40

FanInWeight == 30

FanOutWeight == 30

ShellWeight == 35

VelocityWeight == 15

VelocityLimit == 15

DampeningDegree == 100

DampeningMinTx == 10

DampeningPenalty == 30

ScoreCap == 100

AccountTxs(txs, id) ==
    SelectSeq(txs, LAMBDA tx : tx.sender_id = id \/ tx.receiver_id = id)

SetMax(S) == CHOOSE x \in S : \A y \in S : y <= x

SetMin(S) == CHOOSE x \in S : \A y \in S : x <= y

\* txPerDay = length / max(timeSpan / OneDay, 1) > 15
HighVelocity(accountTxs) ==
    /\ Len(accountTxs) > 0
    /\ LET times == {Time(accountTxs[i].timestamp) : i \in 1..Len(accountTxs)}
           timeSpan == SetMax(times) - SetMin(times)
       IN Len(accountTxs) * OneDay > VelocityLimit * Max(timeSpan, OneDay)

\* times.sort((a, b) => a - b)
SortNums(s) == StableSort(s, LAMBDA a, b : a < b)

\* more than 60% of the inter-arrival intervals within 30% of their mean
ConsistentIntervals(accountTxs) ==
    LET sorted == SortNums([i \in 1..Len(accountTxs) |-> Time(accountTxs[i].timestamp)])
        intervals == [i \in 1..(Len(sorted) - 1) |-> sorted[i + 1] - sorted[i]]
        total == SumSeq(intervals)
        n == Len(intervals)
        dev(i) == IF intervals[i] * n >= total THEN intervals[i] * n - total
                  ELSE total - intervals[i] * n
        consistent == {i \in 1..n : total > 0 /\ 10 * dev(i) < 3 * total}
    IN 10 * Cardinality(consistent) > 6 * n

\* dampening that does not spare the members of cycles
DampenedInCycle(account, inCycle, accountTxs) ==
    /\ account.in_degree + account.out_degree > DampeningDegree
    /\ Len(accountTxs) > DampeningMinTx
    /\ ConsistentIntervals(accountTxs)

Dampened(account, inCycle, accountTxs) ==
    /\ account.in_degree + account.out_degree > DampeningDegree
    /\ ~inCycle
    /\ Len(accountTxs) > DampeningMinTx
    /\ ConsistentIntervals(accountTxs)

\* the Scorer without its cap
ClampScoreUncapped(score) == score

\* score = Math.min(score, 100)
ClampScore(score) == Min(score, ScoreCap)

ScoreAccount(account, rMap, fIn, fOut, sNodes, txs) ==
    LET id == account.account_id
        inCycle == id \in DOMAIN rMap
        isFanIn == FanHas(fIn, id)
        isFanOut == FanHas(fOut, id)
        isShell == id \in sNodes
        accountTxs == AccountTxs(txs, id)
        fast == HighVelocity(accountTxs)
        scores == [cycle |-> IF inCycle THEN CycleWeight ELSE 0,
                   fan_in |-> IF isFanIn THEN FanInWeight ELSE 0,
                   fan_out |-> IF isFanOut THEN FanOutWeight ELSE 0,
                   shell |-> IF isShell THEN ShellWeight ELSE 0,
                   velocity |-> IF fast THEN VelocityWeight ELSE 0]
        sum == scores.fan_in + scores.fan_out + scores.cycle + scores.shell
               + scores.velocity
        damp == Dampened(account, inCycle, accountTxs)
        score == ClampScore(IF damp THEN Max(0, sum - DampeningPenalty) ELSE sum)
    IN [account EXCEPT
          !.pattern_scores = scores,
          !.suspicion_score = score,
          !.ring_ids = IF inCycle THEN rMap[id] ELSE account.ring_ids,
          !.detected_patterns =
              (IF inCycle THEN <<"cycle">> ELSE <<>>)
              \o (IF isFanIn THEN <<"fan_in">> ELSE <<>>)
              \o (IF isFanOut THEN <<"fan_out">> ELSE <<>>)
              \o (IF isShell THEN <<"shell_chain">> ELSE <<>>)
              \o (IF fast THEN <<"high_velocity">> ELSE <<>>),
          !.triggered_algorithms =
              (IF inCycle THEN <<"DFS Cycle Detection (Johnson variant)">> ELSE <<>>)
              \o (IF isFanIn THEN <<"72h Sliding Window Fan-In">> ELSE <<>>)
              \o (IF isFanOut THEN <<"72h Sliding Window Fan-Out">> ELSE <<>>)
              \o (IF isShell THEN <<"BFS Shell Chain Detection">> ELSE <<>>)
              \o (IF fast THEN <<"Transaction Velocity Analysis">> ELSE <<>>)
              \o (IF damp THEN <<"False Positive Dampening">> ELSE <<>>),
          !.explanation =
              (IF inCycle THEN <<<<"Part of fraud ring(s)", rMap[id]>>>> ELSE <<>>)
              \o (IF isFanIn
                  THEN <<<<"Received from unique senders within 72h",
                           Len(FanGet(fIn, id).members)>>>>
                  ELSE <<>>)
              \o (IF isFanOut
                  THEN <<<<"Sent to unique receivers within 72h",
                           Len(FanGet(fOut, id).members)>>>>
                  ELSE <<>>)
              \o (IF isShell
                  THEN <<<<"Intermediate node in shell chain",
                           account.total_transactions>>>>
                  ELSE <<>>)
              \o (IF fast THEN <<<<"High velocity", Len(accountTxs)>>>> ELSE <<>>)
              \o (IF damp
                  THEN <<<<"Score reduced by 30",
                           account.in_degree + account.out_degree>>>>
                  ELSE <<>>),
          !.is_suspicious = score > 0]

calculateSuspicionScores(accounts, rMap, fIn, fOut, sNodes, txs) ==
    [id \in DOMAIN accounts |->
        ScoreAccount(accounts[id], rMap, fIn, fOut, sNodes, txs)]

(***************************************************************************)
(* buildFraudRings: cycle rings, fan-in rings, fan-out rings, then one     *)
(* shell ring per connected component of the chains, numbered by one       *)
(* counter; the array is finally sorted by risk_score, descending.         *)
(***************************************************************************)
\* (sum of the members' suspicion_score) / members.length, rounded
AvgScore(accounts, members) ==
    RoundDiv(SumSeq([i \in 1..Len(members) |->
                        IF members[i] \in DOMAIN accounts
                        THEN accounts[members[i]].suspicion_score ELSE 0]),
             Len(members))

\* one transaction, the first of the input, on every hop edge
CycleTotalValueFirst(cycle, txs) ==
    SumSeq([i \in 1..Len(cycle) |->
              EdgeTxs(txs, cycle[i], cycle[(i % Len(cycle)) + 1])[1].amount])

\* all transactions on every hop edge of the cycle
CycleTotalValue(cycle, txs) ==
    SumSeq([i \in 1..Len(cycle) |->
              LET matching == EdgeTxs(txs, cycle[i], cycle[(i % Len(cycle)) + 1])
              IN SumSeq([k \in 1..Len(matching) |-> matching[k].amount])])

CycleRing(cycle, counter, accounts, txs) ==
    [ring_id |-> RingId(counter),
     pattern_type |-> "cycle",
     members |-> cycle,
     member_count |-> Len(cycle),
     risk_score |-> AvgScore(accounts, cycle),
     total_value |-> CycleTotalValue(cycle, txs),
     explanation |-> <<"Cycle of accounts", cycle, CycleTotalValue(cycle, txs)>>]

FanRing(entry, type, counter, accounts) ==
    LET members == <<entry.hub>> \o entry.members
    IN [ring_id |-> RingId(counter),
        pattern_type |-> type,
        members |-> members,
        member_count |-> Len(members),
        risk_score |-> AvgScore(accounts, members),
        total_value |-> 0,
        explanation |-> <<type, entry.hub, Len(entry.members)>>]

ShellRing(best, counter, accounts) ==
    [ring_id |-> RingId(counter),
     pattern_type |-> "shell_chain",
     members |-> best,
     member_count |-> Len(best),
     risk_score |-> AvgScore(accounts, best),
     total_value |-> 0,
     explanation |-> <<"Shell chain", best>>]

\* Step 1: the first chain of every sorted node-set signature
UniqueChains(chains) ==
    LET firsts == SelectSeq([i \in 1..Len(chains) |-> i],
                     LAMBDA i : \A k \in 1..(i - 1) : Range(chains[k]) # Range(chains[i]))
    IN [j \in 1..Len(firsts) |-> chains[firsts[j]]]

\* the concatenation of ss[lo..hi], split in halves
RECURSIVE FlattenRange(_, _, _)
FlattenRange(ss, lo, hi) ==
    IF lo > hi THEN <<>>
    ELSE IF lo = hi THEN ss[lo]
    ELSE LET mid == (lo + hi) \div 2
         IN FlattenRange(ss, lo, mid) \o FlattenRange(ss, mid + 1, hi)

Flatten(ss) == FlattenRange(ss, 1, Len(ss))

\* Step 2: undirected adjacency over consecutive chain nodes
ShellAdj(chains) ==
    UNION {UNION {{<<chains[c][i], chains[c][i + 1]>>, <<chains[c][i + 1], chains[c][i]>>} :
                    i \in 1..(Len(chains[c]) - 1)} : c \in 1..Len(chains)}

RECURSIVE Reach(_, _)
Reach(S, E) ==
    LET S2 == S \cup {e[2] : e \in {d \in E : d[1] \in S}}
    IN IF S2 = S THEN S ELSE Reach(S2, E)

\* Step 3: components in the order of their first key in shellAdj,
\* st = [i, visited, acc]
RECURSIVE ShellComponents(_, _, _)
ShellComponents(keys, E, st) ==
    IF st.i > Len(keys) THEN st.acc
    ELSE IF keys[st.i] \in st.visited
    THEN ShellComponents(keys, E, [st EXCEPT !.i = @ + 1])
    ELSE LET comp == Reach({keys[st.i]}, E)
         IN ShellComponents(keys, E,
                [i |-> st.i + 1, visited |-> st.visited \cup comp,
                 acc |-> Append(st.acc, comp)])

\* if (uniq > bestUniqueCount): the chain is replaced only by one with
\* strictly more unique nodes
BetterChain(candidate, best) ==
    Cardinality(Range(candidate)) > Cardinality(Range(best))

\* the first chain of the component, whatever its length
BestChainFirst(chainsInComp) == chainsInComp[1]

\* the running best of the loop: the first chain that none is better than
BestChain(chainsInComp) ==
    chainsInComp[CHOOSE i \in 1..Len(chainsInComp) :
        /\ \A j \in 1..Len(chainsInComp) : ~BetterChain(chainsInComp[j], chainsInComp[i])
        /\ \A j \in 1..(i - 1) : BetterChain(chainsInComp[i], chainsInComp[j])]

\* Step 4: the chain with the most unique nodes of every component
ShellBest(chains) ==
    LET uniqueChains == UniqueChains(chains)
        comps == ShellComponents(Dedup(Flatten(uniqueChains)), ShellAdj(uniqueChains),
                                 [i |-> 1, visited |-> {}, acc |-> <<>>])
    IN [c \in 1..Len(comps) |->
          BestChain(SelectSeq(uniqueChains, LAMBDA ch : Range(ch) \cap comps[c] # {}))]

\* the rings left in the order of their construction
SortByRiskNone(rings) == rings

\* rings.sort((a, b) => b.risk_score - a.risk_score)
SortByRisk(rings) == StableSort(rings, LAMBDA a, b : a.risk_score > b.risk_score)

\* a counter kept across calls: the second call goes on from the first
FirstRingCounterShared(nCycles) ==
    IF run = 1 THEN 0 ELSE Len(firstResult.fraudRings)

\* let ringCounter = 0: the counter restarts in buildFraudRings
FirstRingCounter(nCycles) == 0

\* a counter that starts again for every pattern type
NextCounterRestarted(ringCounter, i) == i

\* ringCounter++ in the i-th iteration of a loop entered with ringCounter
NextCounter(ringCounter, i) == ringCounter + i

buildFraudRings(cs, fIn, fOut, chains, accounts, txs) ==
    LET c0 == FirstRingCounter(Len(cs))
        nC == Len(cs)
        nI == Len(fIn)
        nO == Len(fOut)
        best == ShellBest(chains)
        rings ==
            [i \in 1..nC |-> CycleRing(cs[i], NextCounter(c0, i), accounts, txs)]
            \o [i \in 1..nI |->
                   FanRing(fIn[i], "fan_in", NextCounter(c0 + nC, i), accounts)]
            \o [i \in 1..nO |->
                   FanRing(fOut[i], "fan_out", NextCounter(c0 + nC + nI, i), accounts)]
            \o [i \in 1..Len(best) |->
                   ShellRing(best[i], NextCounter(c0 + nC + nI + nO, i), accounts)]
    IN SortByRisk(rings)

\* "Update ring_ids on accounts from fraudRings": the ids of the account's
\* rings, in ring order, pushed when not yet present
RingIdsAfterBuild(account, rings) ==
    LET own == SelectSeq(rings, LAMBDA r : Includes(r.members, account.account_id))
    IN Dedup(account.ring_ids \o [i \in 1..Len(own) |-> own[i].ring_id])

(***************************************************************************)
(* Relationship intelligence (relationship-intelligence.ts).  Accounts     *)
(* outside every detected cycle that take part in a recurring pair get a   *)
(* bounded negative adjustment; cycle members are immune.                  *)
(***************************************************************************)
RecurringMin == 2

RIAdjustments == {0, 35}

HasRecurringPair(txs, id) ==
    \E i \in 1..Len(txs) :
        /\ txs[i].sender_id = id \/ txs[i].receiver_id = id
        /\ Len(EdgeTxs(txs, txs[i].sender_id, txs[i].receiver_id)) >= RecurringMin

adjustScoresUsingRelationshipIntelligence(accounts, txs, cycleMembers, adj) ==
    [id \in DOMAIN accounts |->
        IF id \notin cycleMembers /\ adj > 0 /\ HasRecurringPair(txs, id)
           /\ accounts[id].suspicion_score > 0
        THEN LET score == Max(0, accounts[id].suspicion_score - adj)
             IN [accounts[id] EXCEPT
                   !.suspicion_score = score,
                   !.is_suspicious = score > 0,
                   !.triggered_algorithms = PushUnique(@, "Relationship Intelligence"),
                   !.explanation = Append(@, <<"Relationship adjustment", adj>>)]
        ELSE accounts[id]]

(***************************************************************************)
(* Temporal cycle validation (temporal-cycle-validation.ts).               *)
(***************************************************************************)
EarlierTx(tx, earliest) == Time(tx.timestamp) < Time(earliest.timestamp)

RECURSIVE EarliestOf(_, _, _)
EarliestOf(matching, i, earliest) ==
    IF i > Len(matching) THEN earliest
    ELSE EarliestOf(matching, i + 1,
                    IF EarlierTx(matching[i], earliest) THEN matching[i] ELSE earliest)

\* findEarliestTx; the caller has checked that the hop has a transaction
findEarliestTx(from, to, txs) ==
    LET matching == EdgeTxs(txs, from, to)
    IN EarliestOf(matching, 2, matching[1])

HasTx(from, to, txs) == EdgeTxs(txs, from, to) # <<>>

\* a hop that may lose up to three quarters of the amount
AmountDropLoose(curr, prev) == 4 * curr.amount < prev.amount

\* hopTxs[i].amount < hopTxs[i - 1].amount * 0.5
AmountDrop(curr, prev) == 2 * curr.amount < prev.amount

\* curr < prev on the hop timestamps
OutOfOrder(curr, prev) == Time(curr.timestamp) < Time(prev.timestamp)

validateCycle(cycle, txs) ==
    LET hopCount == Len(cycle)
        to(i) == cycle[(i % hopCount) + 1]
        missing == {i \in 1..hopCount : ~HasTx(cycle[i], to(i), txs)}
        hopTxs == Stored([i \in 1..hopCount |->
                             findEarliestTx(cycle[i], to(i), txs)])
        late == {i \in 2..hopCount : OutOfOrder(hopTxs[i], hopTxs[i - 1])}
        drop == {i \in 2..hopCount : AmountDrop(hopTxs[i], hopTxs[i - 1])}
    IN IF missing # {}
       THEN [valid |-> FALSE, reason |-> <<"No transaction found for hop", SetMin(missing)>>]
       ELSE IF late # {}
       THEN [valid |-> FALSE, reason |-> <<"Temporal ordering violated", SetMin(late)>>]
       ELSE IF drop # {}
       THEN [valid |-> FALSE, reason |-> <<"Amount drop >50%", SetMin(drop)>>]
       ELSE [valid |-> TRUE, reason |-> <<>>]

RingById(rings, rid) ==
    rings[CHOOSE i \in 1..Len(rings) : rings[i].ring_id = rid]

\* an account that is never taken to be in another cycle ring
StillInCycleNever(ringIds, rings) == FALSE

\* the account's remaining ring_ids name some ring of type cycle
StillInCycle(ringIds, rings) ==
    \E k \in 1..Len(ringIds) :
        /\ \E i \in 1..Len(rings) : rings[i].ring_id = ringIds[k]
        /\ RingById(rings, ringIds[k]).pattern_type = "cycle"

\* ring_ids that keep the id of the invalidated ring
WithoutRingKept(ringIds, ringId) == ringIds

\* account.ring_ids.filter((id) => id !== ringId)
WithoutRing(ringIds, ringId) == SelectSeq(ringIds, LAMBDA id : id # ringId)

InvalidateMember(account, ringId, rings, reason) ==
    LET ringIds == WithoutRing(account.ring_ids, ringId)
        a1 == [account EXCEPT !.ring_ids = ringIds]
    IN IF StillInCycle(ringIds, rings) THEN a1
       ELSE LET ps == [a1.pattern_scores EXCEPT !.cycle = 0]
                total == Min(100, Max(0, ps.fan_in + ps.fan_out + ps.cycle + ps.shell
                                         + ps.velocity))
            IN [a1 EXCEPT
                  !.pattern_scores = ps,
                  !.suspicion_score = total,
                  !.detected_patterns = SelectSeq(@, LAMBDA p : p # "cycle"),
                  !.explanation = Append(@, <<"Cycle ring invalidated", ringId, reason>>),
                  !.is_suspicious = total > 0]

\* the loop over the cycle rings, in fraudRings order,
\* st = [i, accounts, invalidatedRingIds]
RECURSIVE ValidateRings(_, _, _)
ValidateRings(rings, txs, st) ==
    IF st.i > Len(rings) THEN st
    ELSE IF rings[st.i].pattern_type # "cycle"
    THEN ValidateRings(rings, txs, [st EXCEPT !.i = @ + 1])
    ELSE LET ring == rings[st.i]
             res == validateCycle(ring.members, txs)
         IN IF res.valid THEN ValidateRings(rings, txs, [st EXCEPT !.i = @ + 1])
            ELSE ValidateRings(rings, txs,
                    [i |-> st.i + 1,
                     accounts |->
                        Stored([id \in DOMAIN st.accounts |->
                            IF Includes(ring.members, id)
                            THEN InvalidateMember(st.accounts[id], ring.ring_id, rings,
                                                  res.reason)
                            ELSE st.accounts[id]]),
                     invalidatedRingIds |-> Append(st.invalidatedRingIds, ring.ring_id)])

validateTemporalCycles(accounts, rings, txs) ==
    LET r == ValidateRings(rings, txs,
                           [i |-> 1, accounts |-> accounts, invalidatedRingIds |-> <<>>])
    IN [accounts |-> r.accounts,
        fraudRings |-> SelectSeq(rings,
                          LAMBDA ring : ~Includes(r.invalidatedRingIds, ring.ring_id)),
        invalidatedRingIds |-> r.invalidatedRingIds]

(***************************************************************************)
(* Ring leadership (centrality-analysis.ts).  Centralities are exact       *)
(* rationals [n, d]; the BFS of brandesBetweenness is followed level by     *)
(* level.                                                                  *)
(***************************************************************************)
RECURSIVE Gcd(_, _)
Gcd(a, b) == IF b = 0 THEN a ELSE Gcd(b, a % b)

Rat(n, d) == LET g == Gcd(n, d) IN IF g = 0 THEN [n |-> 0, d |-> 1]
                                   ELSE [n |-> n \div g, d |-> d \div g]

RatAdd(x, y) == Rat(x.n * y.d + y.n * x.d, x.d * y.d)

RatMul(x, y) == Rat(x.n * y.n, x.d * y.d)

RatLess(x, y) == x.n * y.d < y.n * x.d

RatZero == [n |-> 0, d |-> 1]

RatOne == [n |-> 1, d |-> 1]

\* the sum of the rationals s[lo..hi], split in halves
RECURSIVE RatSumRange(_, _, _)
RatSumRange(s, lo, hi) ==
    IF lo > hi THEN RatZero
    ELSE IF lo = hi THEN s[lo]
    ELSE LET mid == (lo + hi) \div 2
         IN RatAdd(RatSumRange(s, lo, mid), RatSumRange(s, mid + 1, hi))

RatSum(s) == RatSumRange(s, 1, Len(s))

\* buildRingEdges: the distinct directed pairs among the members
buildRingEdges(members, txs) ==
    {<<txs[i].sender_id, txs[i].receiver_id>> : i \in
        {j \in 1..Len(txs) : txs[j].sender_id \in members /\ txs[j].receiver_id \in members}}

\* the BFS from s, level by level: st = [frontier, d, dist], dist -1 is unseen
RECURSIVE BfsDist(_, _)
BfsDist(E, st) ==
    IF st.frontier = {} THEN st.dist
    ELSE LET next == {w \in DOMAIN st.dist :
                        st.dist[w] = 0 - 1 /\ \E v \in st.frontier : <<v, w>> \in E}
         IN BfsDist(E, [frontier |-> next, d |-> st.d + 1,
                        dist |-> Stored([w \in DOMAIN st.dist |->
                                    IF w \in next THEN st.d + 1 ELSE st.dist[w]])])

\* sigma[w] += sigma[v] over the predecessors v of w: st = [d, sigma]
RECURSIVE SigmaUp(_, _, _, _, _)
SigmaUp(order, E, dist, maxD, st) ==
    IF st.d > maxD THEN st.sigma
    ELSE SigmaUp(order, E, dist, maxD,
            [d |-> st.d + 1,
             sigma |-> Stored([w \in DOMAIN dist |->
                IF dist[w] = st.d
                THEN LET pred == SelectSeq(order,
                                   LAMBDA v : dist[v] = st.d - 1 /\ <<v, w>> \in E)
                     IN SumSeq([k \in 1..Len(pred) |-> st.sigma[pred[k]]])
                ELSE st.sigma[w]])])

\* delta[v] += (sigma[v] / sigma[w]) * (1 + delta[w]) while the stack is
\* popped, farthest level first: st = [d, delta]
RECURSIVE DeltaDown(_, _, _, _, _)
DeltaDown(order, E, dist, sigma, st) ==
    IF st.d < 0 THEN st.delta
    ELSE DeltaDown(order, E, dist, sigma,
            [d |-> st.d - 1,
             delta |-> Stored([v \in DOMAIN dist |->
                IF dist[v] = st.d
                THEN LET succ == SelectSeq(order,
                                   LAMBDA w : dist[w] = st.d + 1 /\ <<v, w>> \in E)
                     IN RatSum([k \in 1..Len(succ) |->
                                  RatMul(Rat(sigma[v], sigma[succ[k]]),
                                         RatAdd(RatOne, st.delta[succ[k]]))])
                ELSE st.delta[v]])])

\* the dependencies delta of one source s; order lists the nodes once each
Dependencies(order, E, s) ==
    LET nodeSet == Range(order)
        dist == BfsDist(E, [frontier |-> {s}, d |-> 0,
                            dist |-> Stored([v \in nodeSet |->
                                                IF v = s THEN 0 ELSE 0 - 1])])
        maxD == SetMax({dist[v] : v \in nodeSet})
        sigma == SigmaUp(order, E, dist, maxD,
                         [d |-> 1, sigma |-> Stored([v \in nodeSet |->
                                                       IF v = s THEN 1 ELSE 0])])
    IN DeltaDown(order, E, dist, sigma,
                 [d |-> maxD, delta |-> Stored([v \in nodeSet |-> RatZero])])

\* CB[w] += delta[w] for every source s and every w other than s; the
\* sources are the entries of nodes, a repeated entry counts again
AccumulateCb(nodes, E) ==
    LET order == Dedup(nodes)
        deps == Stored([i \in 1..Len(nodes) |-> Dependencies(order, E, nodes[i])])
    IN Stored([w \in Range(nodes) |->
          RatSum([i \in 1..Len(nodes) |->
                    IF nodes[i] # w THEN deps[i][w] ELSE RatZero])])

RatMax(S) == CHOOSE x \in S : \A y \in S : ~RatLess(x, y)

\* betweenness of every node, divided by the largest (or by 1e-9 when all are 0)
brandesBetweenness(nodes, E) ==
    LET nodeSet == Range(nodes)
        cb == AccumulateCb(nodes, E)
        maxCb == RatMax({cb[v] : v \in nodeSet})
    IN Stored([v \in nodeSet |->
          IF maxCb.n = 0 THEN RatZero ELSE Rat(cb[v].n * maxCb.d, cb[v].d * maxCb.n)])

\* the members sorted by ascending centrality
SortByCentralityAscending(es) == StableSort(es, LAMBDA a, b : RatLess(a.c, b.c))

\* .sort((a, b) => b.c - a.c)
SortByCentrality(es) == StableSort(es, LAMBDA a, b : RatLess(b.c, a.c))

assignRole(rank, totalMembers) ==
    IF rank = 0 THEN "ORCHESTRATOR"
    ELSE IF totalMembers <= 3 THEN "PERIPHERAL"
    ELSE LET cutoff == (66 * totalMembers + 99) \div 100
         IN IF rank < cutoff THEN "INTERMEDIARY" ELSE "PERIPHERAL"

OrchestratorBoost == 10

\* Math.round(c * 1000), the centrality in thousandths
Thousandths(c) == RoundDiv(1000 * c.n, c.d)

HasOrchestratorClause(explanation) ==
    \E i \in 1..Len(explanation) : explanation[i][1] = "Identified as ORCHESTRATOR"

\* Math.min(100, account.suspicion_score + 10)
Boost(score) == Min(100, score + OrchestratorBoost)

RankMember(account, c, role, ringId) ==
    LET a1 == IF account.centrality_score = NoCentrality
                 \/ c.n * 1000 > account.centrality_score * c.d
              THEN [account EXCEPT !.centrality_score = Thousandths(c),
                                   !.ring_role = role]
              ELSE account
    IN IF role = "ORCHESTRATOR"
       THEN [a1 EXCEPT
               !.suspicion_score = Boost(a1.suspicion_score),
               !.triggered_algorithms = PushUnique(@, "Ring Leadership Centrality"),
               !.explanation =
                   IF HasOrchestratorClause(a1.explanation) THEN a1.explanation
                   ELSE Append(a1.explanation,
                               <<"Identified as ORCHESTRATOR", a1.centrality_score, ringId>>)]
       ELSE a1

RECURSIVE RankMembers(_, _, _, _)
RankMembers(ranked, i, accounts, ringId) ==
    IF i > Len(ranked) THEN accounts
    ELSE IF ranked[i].id \notin DOMAIN accounts
    THEN RankMembers(ranked, i + 1, accounts, ringId)
    ELSE RankMembers(ranked, i + 1,
            [accounts EXCEPT
               ![ranked[i].id] = RankMember(accounts[ranked[i].id], ranked[i].c,
                                            assignRole(i - 1, Len(ranked)), ringId)],
            ringId)

Ranked(ring, txs) ==
    LET centrality == brandesBetweenness(ring.members,
                                         buildRingEdges(Range(ring.members), txs))
    IN SortByCentrality([i \in 1..Len(ring.members) |->
                            [id |-> ring.members[i], c |-> centrality[ring.members[i]]]])

\* for (const ring of fraudRings), st = [i, accounts]
RECURSIVE LeadRings(_, _, _)
LeadRings(rings, txs, st) ==
    IF st.i > Len(rings) THEN st.accounts
    ELSE IF Cardinality(Range(rings[st.i].members)) < 2
    THEN LeadRings(rings, txs, [st EXCEPT !.i = @ + 1])
    ELSE LeadRings(rings, txs,
            [i |-> st.i + 1,
             accounts |-> RankMembers(Ranked(rings[st.i], txs), 1, st.accounts,
                                      rings[st.i].ring_id)])

analyzeRingLeadership(accounts, rings, txs) ==
    IF Len(rings) = 0 THEN accounts
    ELSE LeadRings(rings, txs, [i |-> 1, accounts |-> accounts])

(***************************************************************************)
(* Multi-stage flow tagging (multi-stage-flow-analysis.ts).                *)
(***************************************************************************)
Infinity == 2147483647

MultiStageBoost == 20

RingsOf(id, rings) == SelectSeq(rings, LAMBDA r : Includes(r.members, id))

\* the distinct pattern types of the account's rings, in ring order
PatternTypesOf(id, rings) ==
    LET own == RingsOf(id, rings)
    IN Dedup([i \in 1..Len(own) |-> own[i].pattern_type])

earliestTimestampForPattern(accountId, patternType, rings, txs) ==
    LET ofType == SelectSeq(RingsOf(accountId, rings),
                            LAMBDA r : r.pattern_type = patternType)
        peerNodes == UNION {Range(ofType[i].members) : i \in 1..Len(ofType)}
        times == {Time(txs[i].timestamp) : i \in
                    {j \in 1..Len(txs) :
                        \/ txs[j].sender_id = accountId /\ txs[j].receiver_id \in peerNodes
                        \/ txs[j].receiver_id = accountId /\ txs[j].sender_id \in peerNodes}}
    IN IF times = {} THEN Infinity ELSE SetMin(times)

\* patternsWithTime.sort((a, b) => a.t - b.t)
SortByT(es) == StableSort(es, LAMBDA a, b : a.t < b.t)

\* the pattern types left in the order of the rings
FlowPatternInRingOrder(accountId, patternTypes, rings, txs) == patternTypes

FlowPattern(accountId, patternTypes, rings, txs) ==
    LET sorted == SortByT([i \in 1..Len(patternTypes) |->
                    [pattern |-> patternTypes[i],
                     t |-> earliestTimestampForPattern(accountId, patternTypes[i],
                                                       rings, txs)]])
    IN [i \in 1..Len(sorted) |-> sorted[i].pattern]

MinStageTypes == 2

TagMultiStage(account, rings, txs) ==
    LET patternTypes == PatternTypesOf(account.account_id, rings)
    IN IF Len(patternTypes) < MinStageTypes THEN account
       ELSE LET flowPattern == FlowPattern(account.account_id, patternTypes, rings, txs)
            IN [account EXCEPT
                  !.laundering_stage = "MULTI_STAGE",
                  !.flow_pattern = flowPattern,
                  !.suspicion_score = Min(100, account.suspicion_score + MultiStageBoost),
                  !.triggered_algorithms = PushUnique(@, "Multi-Stage Flow Detection"),
                  !.explanation = Append(@, <<"Multi-stage laundering flow detected",
                                              flowPattern, Len(patternTypes)>>),
                  !.detected_patterns = PushUnique(@, "multi_stage")]

detectMultiStageFlows(accounts, rings, txs) ==
    IF Len(rings) = 0 THEN accounts
    ELSE [id \in DOMAIN accounts |-> TagMultiStage(accounts[id], rings, txs)]

(***************************************************************************)
(* 7. detectMuleCommunities: connected components of the suspicious        *)
(* subgraph, accepted with at least two evidence categories.               *)
(***************************************************************************)
MinComponentSize == 2

MinBridgeDegree == 2

\* for (const neighborId of neighbors.keys()), st = [j, adj]
RECURSIVE SuspAdjNeighbors(_, _, _)
SuspAdjNeighbors(nodeId, nbrs, st) ==
    IF st.j > Len(nbrs) THEN st.adj
    ELSE IF nbrs[st.j] \notin DOMAIN st.adj
    THEN SuspAdjNeighbors(nodeId, nbrs, [st EXCEPT !.j = @ + 1])
    ELSE LET a1 == [st.adj EXCEPT ![nodeId] = PushUnique(@, nbrs[st.j])]
         IN SuspAdjNeighbors(nodeId, nbrs,
                [j |-> st.j + 1,
                 adj |-> [a1 EXCEPT ![nbrs[st.j]] = PushUnique(@, nodeId)]])

\* for (const nodeId of suspiciousIds), st = [i, adj]
RECURSIVE SuspAdj(_, _, _)
SuspAdj(g, ids, st) ==
    IF st.i > Len(ids) THEN st.adj
    ELSE SuspAdj(g, ids,
            [i |-> st.i + 1,
             adj |-> SuspAdjNeighbors(ids[st.i], g[ids[st.i]], [j |-> 1, adj |-> st.adj])])

\* for (const neighbor of suspAdj.get(current)), st = [j, queue, visited]
RECURSIVE CompNeighbors(_, _)
CompNeighbors(nbrs, st) ==
    IF st.j > Len(nbrs) THEN st
    ELSE IF nbrs[st.j] \in st.visited THEN CompNeighbors(nbrs, [st EXCEPT !.j = @ + 1])
    ELSE CompNeighbors(nbrs, [j |-> st.j + 1, queue |-> Append(st.queue, nbrs[st.j]),
                              visited |-> st.visited \cup {nbrs[st.j]}])

\* while (queue.length > 0), st = [queue, visited, component]
RECURSIVE CompBFS(_, _)
CompBFS(adj, st) ==
    IF st.queue = <<>> THEN st
    ELSE LET current == Head(st.queue)
             r == CompNeighbors(adj[current],
                                [j |-> 1, queue |-> Tail(st.queue), visited |-> st.visited])
         IN CompBFS(adj, [queue |-> r.queue, visited |-> r.visited,
                          component |-> Append(st.component, current)])

\* Only consider components with >= 2 members
KeepComponent(component) == Len(component) >= MinComponentSize

\* for (const startId of suspiciousIds), st = [i, visited, comps]
RECURSIVE Components(_, _, _)
Components(ids, adj, st) ==
    IF st.i > Len(ids) THEN st.comps
    ELSE IF ids[st.i] \in st.visited THEN Components(ids, adj, [st EXCEPT !.i = @ + 1])
    ELSE LET r == CompBFS(adj, [queue |-> <<ids[st.i]>>,
                                visited |-> st.visited \cup {ids[st.i]},
                                component |-> <<>>])
         IN Components(ids, adj,
                [i |-> st.i + 1, visited |-> r.visited,
                 comps |-> IF KeepComponent(r.component)
                           THEN Append(st.comps, r.component) ELSE st.comps])

\* number of directed edges (neighbour entries) inside the component
InternalEdges(g, component) ==
    SumSeq([i \in 1..Len(component) |->
              Len(SelectSeq(g[component[i]], LAMBDA nb : nb \in Range(component)))])

Evidences(g, component, adj, cs, fIn, fOut, chains) ==
    LET cycleNodes == UNION {Range(cs[i]) : i \in 1..Len(cs)}
        shellNodeSet == UNION {Range(chains[i]) : i \in 1..Len(chains)}
        comp == Range(component)
    IN (IF comp \cap cycleNodes # {} THEN <<"cycle">> ELSE <<>>)
       \o (IF \E n \in comp : FanHas(fIn, n) THEN <<"fan_in">> ELSE <<>>)
       \o (IF \E n \in comp : FanHas(fOut, n) THEN <<"fan_out">> ELSE <<>>)
       \o (IF comp \cap shellNodeSet # {} THEN <<"shell_chain">> ELSE <<>>)
       \o (IF \E n \in comp : Len(adj[n]) >= MinBridgeDegree THEN <<"bridge">> ELSE <<>>)
       \o (IF InternalEdges(g, component) >= Len(component) THEN <<"density">> ELSE <<>>)

MinEvidences == 2

\* a component accepted on any single evidence
TooFewEvidencesNone(evidences) == Len(evidences) < 1

\* if (evidences.length < 2) continue
TooFewEvidences(evidences) == Len(evidences) < MinEvidences

\* round(log2(n) * 1000000)
Log2Micro(n) ==
    <<0, 1000000, 1584963, 2000000, 2321928, 2584963, 2807355, 3000000, 3169925,
      3321928, 3459432, 3584963, 3700440, 3807355, 3906891, 4000000, 4087463,
      4169925, 4247928, 4321928, 4392317, 4459432, 4523562, 4584963>>[n]

\* Math.min(100, Math.round(avgMemberScore + Math.log2(length + 1) * 10))
CommunityRisk(accounts, component) ==
    LET n == Len(component)
        sum == SumSeq([i \in 1..n |-> accounts[component[i]].suspicion_score])
    IN Min(100, (2 * sum * 100000 + 2 * Log2Micro(n + 1) * n + n * 100000)
                \div (2 * n * 100000))

CommunityValue(g, component, txs) ==
    SumSeq([i \in 1..Len(component) |->
        LET inside == SelectSeq(g[component[i]], LAMBDA nb : nb \in Range(component))
        IN SumSeq([k \in 1..Len(inside) |->
              LET edge == EdgeTxs(txs, component[i], inside[k])
              IN SumSeq([t \in 1..Len(edge) |-> edge[t].amount])])])

\* ids of the pattern rings that have a member in the component
SubsumedRingIds(component, patternRings) ==
    Dedup(Flatten([i \in 1..Len(component) |->
        LET own == RingsOf(component[i], patternRings)
        IN [k \in 1..Len(own) |-> own[k].ring_id]]))

\* for (const component of components), st = [i, commIdx, acc]; env holds
\* what the loop only reads
RECURSIVE CommunityRings(_, _, _)
CommunityRings(comps, env, st) ==
    IF st.i > Len(comps) THEN st.acc
    ELSE LET component == comps[st.i]
             evidences == Evidences(env.g, component, env.adj, env.cs, env.fIn,
                                    env.fOut, env.chains)
         IN IF TooFewEvidences(evidences)
            THEN CommunityRings(comps, env, [st EXCEPT !.i = @ + 1])
            ELSE LET subsumed == SubsumedRingIds(component, env.patternRings)
                 IN CommunityRings(comps, env,
                      [i |-> st.i + 1,
                       commIdx |-> st.commIdx + 1,
                       acc |-> Append(st.acc,
                        [ring |->
                           [ring_id |-> CommRingId(st.commIdx + 1),
                            pattern_type |-> "community",
                            members |-> component,
                            member_count |-> Len(component),
                            risk_score |-> CommunityRisk(env.accounts, component),
                            total_value |-> CommunityValue(env.g, component, env.txs),
                            explanation |-> <<"Interconnected mule community",
                                              Len(component),
                                              InternalEdges(env.g, component),
                                              evidences, subsumed>>],
                         merged |-> subsumed])])

detectMuleCommunities(g, nodes, accounts, cs, fIn, fOut, chains, patternRings, txs) ==
    LET suspiciousIds == SelectSeq(nodes, LAMBDA id : accounts[id].suspicion_score > 0)
        suspAdj == SuspAdj(g, suspiciousIds,
                           [i |-> 1, adj |-> [n \in Range(suspiciousIds) |-> <<>>]])
        components == Components(suspiciousIds, suspAdj,
                                 [i |-> 1, visited |-> {}, comps |-> <<>>])
    IN CommunityRings(components,
                      [g |-> g, accounts |-> accounts, adj |-> suspAdj, cs |-> cs,
                       fIn |-> fIn, fOut |-> fOut, chains |-> chains,
                       patternRings |-> patternRings, txs |-> txs],
                      [i |-> 1, commIdx |-> 0, acc |-> <<>>])

\* subsumed ring ids left on the account
KeptRingIdsAll(ringIds, allSubsumed) == ringIds

\* account.ring_ids.filter(rid => !allSubsumed.has(rid))
KeptRingIds(ringIds, allSubsumed) ==
    SelectSeq(ringIds, LAMBDA rid : rid \notin allSubsumed)

\* the update of the members' metadata in analyzeTransactions
JoinCommunity(account, communities) ==
    LET mine == SelectSeq(communities,
                          LAMBDA c : Includes(c.ring.members, account.account_id))
        commRingIds == [i \in 1..Len(mine) |-> mine[i].ring.ring_id]
        allSubsumed == UNION {Range(mine[i].merged) : i \in 1..Len(mine)}
        kept == KeptRingIds(account.ring_ids, allSubsumed)
    IN IF mine = <<>> THEN account
       ELSE [account EXCEPT
               !.ring_ids = Dedup(kept \o commRingIds),
               !.detected_patterns = PushUnique(@, "community"),
               !.triggered_algorithms =
                   PushUnique(@, "Mule Community Detection (BFS Components)"),
               !.explanation = Append(@, <<"Community member", commRingIds>>)]

(***************************************************************************)
(* Two-phase fan-in validation (fan-in-validation.ts): every fan-in        *)
(* receiver is an aggregation candidate; it is confirmed when one of four  *)
(* corroboration conditions holds.  Scores are not touched.                *)
(***************************************************************************)
OutflowWindow == 24

ShellInvolvement(id, account, chains, txs) ==
    \E c \in 1..Len(chains) :
        /\ chains[c][1] = id
        /\ LET hop == EdgeTxs(txs, id, chains[c][2])
               sent == SumSeq([k \in 1..Len(hop) |-> hop[k].amount])
           IN /\ 10 * sent >= 8 * account.total_amount_received
              /\ 10 * sent <= 12 * account.total_amount_received

CycleParticipation(id, g, cs) ==
    LET cycleNodes == UNION {Range(cs[i]) : i \in 1..Len(cs)}
    IN id \in cycleNodes \/ \E k \in 1..Len(g[id]) : g[id][k] \in cycleNodes

RapidOutflow(id, account, entry, txs) ==
    LET inbound == {Time(txs[i].timestamp) : i \in
                      {j \in 1..Len(txs) : /\ txs[j].receiver_id = id
                                           /\ Includes(entry.members, txs[j].sender_id)}}
        latest == SetMax(inbound)
        out == [i \in 1..Len(txs) |->
                  IF /\ txs[i].sender_id = id
                     /\ Time(txs[i].timestamp) >= latest
                     /\ Time(txs[i].timestamp) - latest <= OutflowWindow
                  THEN txs[i].amount ELSE 0]
    IN 2 * SumSeq(out) >= account.total_amount_received

RoleConflict(id, cs, sNodes, fOut) ==
    \/ id \in sNodes
    \/ FanHas(fOut, id)
    \/ \E i \in 1..Len(cs) : Includes(cs[i], id)

validateFanInTwoPhase(accounts, txs, g, cs, chains, sNodes, fIn, fOut) ==
    [id \in DOMAIN accounts |->
        IF ~FanHas(fIn, id) THEN accounts[id]
        ELSE LET confirmed ==
                     \/ ShellInvolvement(id, accounts[id], chains, txs)
                     \/ CycleParticipation(id, g, cs)
                     \/ RapidOutflow(id, accounts[id], FanGet(fIn, id), txs)
                     \/ RoleConflict(id, cs, sNodes, fOut)
                 promotion == IF confirmed THEN "confirmed_money_laundering"
                              ELSE "aggregation_candidate"
             IN [accounts[id] EXCEPT
                   !.fan_in_promotion = promotion,
                   !.explanation = Append(@, <<"Fan-in validation", promotion>>)]]

(***************************************************************************)
(* The result of analyzeTransactions.                                      *)
(***************************************************************************)
\* .sort((a, b) => b.suspicion_score - a.suspicion_score)
SortByScore(as) == StableSort(as, LAMBDA a, b : a.suspicion_score > b.suspicion_score)

SuspiciousAccount(a) ==
    [account_id |-> a.account_id,
     suspicion_score |-> a.suspicion_score,
     detected_patterns |-> a.detected_patterns,
     ring_id |-> IF a.ring_ids = <<>> THEN "" ELSE a.ring_ids[1],
     triggered_algorithms |-> a.triggered_algorithms,
     explanation |-> a.explanation]

\* the accounts listed by their flag
IsFlaggedByField(a) == a.is_suspicious

\* .filter((a) => a.suspicion_score > 0)
IsFlagged(a) == a.suspicion_score > 0

BuildResult(accounts, nodes, rings, txs, processingTime) ==
    LET sortedAccounts == SortByScore([i \in 1..Len(nodes) |-> accounts[nodes[i]]])
        flagged == SelectSeq(sortedAccounts, IsFlagged)
        suspiciousAccounts == [i \in 1..Len(flagged) |-> SuspiciousAccount(flagged[i])]
    IN [accounts |-> sortedAccounts,
        fraudRings |-> rings,
        suspicious_accounts |-> suspiciousAccounts,
        summary |-> [total_accounts_analyzed |-> Len(sortedAccounts),
                     total_transactions |-> Len(txs),
                     suspicious_accounts_flagged |-> Len(suspiciousAccounts),
                     fraud_rings_detected |-> Len(rings),
                     processing_time_seconds |-> processingTime]]

(***************************************************************************)
(* Inputs.                                                                 *)
(***************************************************************************)
Modes == {"all", "cycles", "fan-in", "fan-out", "shell"}

Tx(from, to, amount, ts) ==
    [sender_id |-> from, receiver_id |-> to, amount |-> amount, timestamp |-> ts]

\* transaction_id is the position in the input: ids are unique
WithIds(txs) ==
    [i \in 1..Len(txs) |->
        [transaction_id |-> i, sender_id |-> txs[i].sender_id,
         receiver_id |-> txs[i].receiver_id, amount |-> txs[i].amount,
         timestamp |-> txs[i].timestamp]]

\* account names of the small graphs; hubs and spokes of the fans
N == <<"A", "B", "C", "D", "E", "F", "G", "K">>

P(i) == "P" \o ToString(i)

MaxRing == 6

MaxHops == 6

MaxSpokes == 11

VarEdges == 3

VarSpokes == 2

Ring(k) == [i \in 1..k |-> <<N[i], N[(i % k) + 1]>>]

Chain(h) == [i \in 1..h |-> <<N[i], N[i + 1]>>]

FanIn(k, hub) == [i \in 1..k |-> <<P(i), hub>>]

FanOut(k, hub) == [i \in 1..k |-> <<hub, P(i)>>]

\* <<amount, timestamp>> choices: before and after the other hops (which
\* are at 20), the amount exactly at and just below half of the others
SmallAttrs == {<<100, 10>>, <<100, 30>>, <<50, 20>>, <<49, 20>>}

\* spokes at the start of the window, exactly 72 h and 73 h later
FanAttrs == {<<100, 10>>, <<100, 82>>, <<100, 83>>}

\* graphs with cycles: rings, a repeated hop, two cycles that share a hop,
\* both orientations, two disjoint cycles, a cycle with a tail, a self-loop,
\* a cycle on the two intermediates of a chain
CycleShapes ==
    {Ring(k) : k \in 3..MaxRing}
    \cup { <<<<"A", "B">>, <<"B", "C">>, <<"C", "A">>, <<"A", "B">>>>,
           <<<<"A", "B">>, <<"B", "C">>, <<"C", "A">>, <<"B", "D">>, <<"D", "A">>>>,
           <<<<"A", "B">>, <<"B", "C">>, <<"C", "A">>, <<"A", "C">>, <<"C", "B">>,
             <<"B", "A">>>>,
           <<<<"A", "B">>, <<"B", "C">>, <<"C", "A">>, <<"D", "E">>, <<"E", "F">>,
             <<"F", "D">>>>,
           <<<<"A", "B">>, <<"B", "C">>, <<"C", "A">>, <<"C", "D">>, <<"D", "E">>,
             <<"E", "F">>>>,
           <<<<"A", "A">>, <<"A", "B">>, <<"B", "C">>, <<"C", "A">>>>,
           <<<<"B", "C">>, <<"C", "G">>, <<"G", "B">>, <<"A", "B">>, <<"C", "D">>>> }

\* every edge between the accounts of a list: by sender, and for a sender
\* by receiver, in the order of the list
Complete(ids) ==
    LET n == Len(ids)
    IN [k \in 1..(n * (n - 1)) |->
          LET i == ((k - 1) \div (n - 1)) + 1
              r == ((k - 1) % (n - 1)) + 1
          IN <<ids[i], ids[IF r < i THEN r ELSE r + 1]>>]

\* graphs whose times and amounts do not matter: chains, a branching chain,
\* a diamond, chains with a repeated hop, a chain before a triangle, the
\* complete graphs on 4 and 5 accounts, two chains apart, a chain that
\* forks after its first hop, two chains that join before their last hop
PlainShapes ==
    {Chain(h) : h \in 3..MaxHops}
    \cup { <<>>,
           <<<<"A", "B">>>>,
           <<<<"A", "B">>, <<"B", "C">>, <<"C", "D">>, <<"C", "E">>>>,
           <<<<"A", "B">>, <<"A", "C">>, <<"B", "D">>, <<"C", "D">>, <<"D", "E">>>>,
           <<<<"B", "C">>, <<"A", "B">>, <<"B", "C">>, <<"C", "D">>, <<"B", "C">>>>,
           <<<<"B", "C">>, <<"A", "B">>, <<"B", "C">>, <<"C", "D">>>>,
           <<<<"A", "B">>, <<"B", "C">>, <<"C", "D">>, <<"E", "F">>, <<"F", "G">>,
             <<"G", "E">>>>,
           Complete(<<"D", "B", "A", "C">>),
           Complete(<<"E", "D", "B", "A", "C">>),
           <<<<"A", "B">>, <<"B", "C">>, <<"C", "D">>, <<"E", "F">>, <<"F", "G">>,
             <<"G", "K">>>>,
           <<<<"A", "B">>, <<"B", "C">>, <<"C", "D">>, <<"B", "E">>, <<"E", "F">>,
             <<"F", "G">>>>,
           <<<<"A", "B">>, <<"B", "C">>, <<"C", "D">>, <<"E", "F">>, <<"F", "C">>>> }

\* a hub with 9 to MaxSpokes spokes, below and above the threshold of 10
FanShapes ==
    {FanIn(k, "HUB") : k \in 9..MaxSpokes} \cup {FanOut(k, "HUB") : k \in 9..MaxSpokes}

\* a fan together with other patterns
MixedShapes ==
    { FanIn(10, "HUB") \o <<<<"HUB", "A">>, <<"A", P(1)>>>>,
      FanIn(10, "HUB") \o FanOut(10, "OUT"),
      FanIn(10, "HUB") \o <<<<"HUB", "A">>, <<"A", "B">>, <<"B", "C">>>>,
      FanIn(10, "HUB") \o <<<<P(1), P(2)>>, <<P(2), P(3)>>>>,
      FanIn(10, "HUB") \o <<<<"HUB", "HUB">>>>,
      FanOut(10, "HUB") \o <<<<"A", "B">>, <<"B", "HUB">>>>,
      FanIn(10, "HUB") \o FanOut(10, "HUB") \o <<<<"HUB", "A">>, <<"A", P(1)>>>>,
      FanIn(9, "HUB") \o <<<<P(1), "HUB">>>>,
      FanIn(10, "HUB") \o FanOut(10, "OUT")
          \o <<<<"HUB", "A">>, <<"A", P(1)>>, <<"A", "B">>, <<"B", "C">>, <<"C", "D">>>> }

\* the edges of a shape with attributes: the first v edges take any
\* attribute of the set, the others the default
Inputs(edges, v, attrs, default) ==
    LET n == Min(v, Len(edges))
    IN {[i \in 1..Len(edges) |->
            LET at == IF i <= n THEN f[i] ELSE default
            IN Tx(edges[i][1], edges[i][2], at[1], at[2])] : f \in [1..n -> attrs]}

\* the shapes with every edge at the default: the inputs of the partial modes
DefaultInputs ==
    UNION {Inputs(sh, 0, {}, <<100, 20>>) : sh \in CycleShapes \cup PlainShapes}
    \cup UNION {Inputs(sh, 0, {}, <<100, 10>>) : sh \in FanShapes \cup MixedShapes}

\* the triangle A -> B -> C -> A in time order, its three transactions
\* listed in every order; amounts equal, halving and doubling
SeededTimes == {<<20, 20, 20>>, <<10, 20, 30>>}

SeededAmounts == {<<100, 100, 100>>, <<100, 50, 25>>, <<50, 100, 200>>}

SeededInputs ==
    {[i \in 1..3 |-> Tx(Ring(3)[p[i]][1], Ring(3)[p[i]][2], am[p[i]], ts[p[i]])] :
        p \in {q \in [1..3 -> 1..3] : \A i, j \in 1..3 : i # j => q[i] # q[j]},
        am \in SeededAmounts, ts \in SeededTimes}

\* a merchant: k payers, one payment each to the hub, step hours apart
Merchant(k, step) == [i \in 1..k |-> Tx(P(i), "HUB", 100, 10 + step * (i - 1))]

\* merchants of degree 101 paid every hour, every 10 hours, all at once and
\* at two alternating intervals, one of degree 100, and one of degree 102
\* that is on a cycle
MerchantInputs ==
    { Merchant(DampeningDegree + 1, 1),
      Merchant(DampeningDegree + 1, 10),
      Merchant(DampeningDegree + 1, 0),
      [i \in 1..(DampeningDegree + 1) |->
          Tx(P(i), "HUB", 100, 10 + 2 * (i - 1) - ((i - 1) % 2))],
      Merchant(DampeningDegree, 1),
      Merchant(DampeningDegree + 1, 1)
          \o <<Tx("HUB", "A", 100, 111), Tx("A", P(1), 100, 112)>> }

InputSet ==
    UNION {Inputs(sh, VarEdges, SmallAttrs, <<100, 20>>) : sh \in CycleShapes}
    \cup SeededInputs
    \cup MerchantInputs
    \cup UNION {Inputs(sh, VarSpokes, FanAttrs, <<100, 10>>) : sh \in FanShapes}
    \cup DefaultInputs

\* relationship intelligence is a fixed function of the input: what it
\* subtracts is unknown, and matters only where some pair recurs
AdjustmentsOf(txs) ==
    IF \E i \in 1..Len(txs) : HasRecurringPair(txs, txs[i].sender_id)
    THEN RIAdjustments ELSE {0}

ProcessingTimes == {0, 1}

NoResult == [accounts |-> <<>>, fraudRings |-> <<>>, suspicious_accounts |-> <<>>,
             summary |-> [total_accounts_analyzed |-> 0, total_transactions |-> 0,
                          suspicious_accounts_flagged |-> 0,
                          fraud_rings_detected |-> 0, processing_time_seconds |-> 0]]

\* no call of the validator
NoCsv == [at |-> "idle"]

Fresh ==
    /\ pc = "start"
    /\ allNodes = <<>>
    /\ graph = <<>>
    /\ accountMap = <<>>
    /\ cycles = <<>>
    /\ ringMap = <<>>
    /\ fanInMap = <<>>
    /\ fanOutMap = <<>>
    /\ shellChains = <<>>
    /\ shellNodes = {}
    /\ fraudRings = <<>>
    /\ result = NoResult

Init ==
    /\ \E t \in InputSet, m \in Modes :
          /\ m = "all" \/ t \in DefaultInputs
          /\ transactions = WithIds(t)
          /\ mode = m
    /\ adjustment \in AdjustmentsOf(transactions)
    /\ run = 1
    /\ firstResult = NoResult
    /\ Fresh
    /\ csv = NoCsv

(***************************************************************************)
(* analyzeTransactions, one action per stage.                              *)
(***************************************************************************)
runCycles == mode = "all" \/ mode = "cycles"

runFanIn == mode = "all" \/ mode = "fan-in"

\* the fan-out detector run in every mode
runFanOutAlways == TRUE

runFanOut == mode = "all" \/ mode = "fan-out"

runShell == mode = "all" \/ mode = "shell"

\* buildAdjacencyList, the account map and the per-node metrics
BuildGraph ==
    /\ pc = "start"
    /\ LET g == buildAdjacencyList(transactions)
       IN /\ graph' = g
          /\ allNodes' = GraphKeys(transactions)
          /\ accountMap' = [id \in DOMAIN g |-> NewAccount(transactions, g, id)]
    /\ pc' = "graph"
    /\ UNCHANGED <<transactions, mode, adjustment, cycles, ringMap, fanInMap, fanOutMap,
                   shellChains, shellNodes, fraudRings, result, run, firstResult, csv>>

\* the four detectors, each only when the mode selects it
Detect ==
    /\ pc = "graph"
    /\ LET c == IF runCycles THEN detectCycles(graph, allNodes)
                ELSE [cycles |-> <<>>, ringMap |-> <<>>]
           s == IF runShell THEN detectShellChains(graph, accountMap, allNodes)
                ELSE [chains |-> <<>>, shellNodes |-> {}]
       IN /\ cycles' = c.cycles
          /\ ringMap' = c.ringMap
          /\ shellChains' = s.chains
          /\ shellNodes' = s.shellNodes
    /\ fanInMap' = IF runFanIn THEN detectFanIn(transactions) ELSE <<>>
    /\ fanOutMap' = IF runFanOut THEN detectFanOut(transactions) ELSE <<>>
    /\ pc' = "detected"
    /\ UNCHANGED <<transactions, mode, adjustment, allNodes, graph, accountMap, fraudRings,
                   result, run, firstResult, csv>>

Score ==
    /\ pc = "detected"
    /\ accountMap' = calculateSuspicionScores(accountMap, ringMap, fanInMap, fanOutMap,
                                              shellNodes, transactions)
    /\ pc' = "scored"
    /\ UNCHANGED <<transactions, mode, adjustment, allNodes, graph, cycles, ringMap, fanInMap,
                   fanOutMap, shellChains, shellNodes, fraudRings, result, run,
                   firstResult, csv>>

\* buildFraudRings and the update of ring_ids from the rings
BuildRings ==
    /\ pc = "scored"
    /\ LET rings == buildFraudRings(cycles, fanInMap, fanOutMap, shellChains,
                                    accountMap, transactions)
       IN /\ fraudRings' = rings
          /\ accountMap' = [id \in DOMAIN accountMap |->
                              [accountMap[id] EXCEPT
                                 !.ring_ids = RingIdsAfterBuild(accountMap[id], rings)]]
    /\ pc' = "rings"
    /\ UNCHANGED <<transactions, mode, adjustment, allNodes, graph, cycles, ringMap, fanInMap,
                   fanOutMap, shellChains, shellNodes, result, run, firstResult, csv>>

Relationship ==
    /\ pc = "rings"
    /\ accountMap' = adjustScoresUsingRelationshipIntelligence(
                        accountMap, transactions,
                        UNION {Range(cycles[i]) : i \in 1..Len(cycles)}, adjustment)
    /\ pc' = "relationship"
    /\ UNCHANGED <<transactions, mode, adjustment, allNodes, graph, cycles, ringMap, fanInMap,
                   fanOutMap, shellChains, shellNodes, fraudRings, result, run,
                   firstResult, csv>>

TemporalValidation ==
    /\ pc = "relationship"
    /\ LET r == validateTemporalCycles(accountMap, fraudRings, transactions)
       IN /\ accountMap' = r.accounts
          /\ fraudRings' = r.fraudRings
    /\ pc' = "temporal"
    /\ UNCHANGED <<transactions, mode, adjustment, allNodes, graph, cycles, ringMap, fanInMap,
                   fanOutMap, shellChains, shellNodes, result, run, firstResult, csv>>

\* a leadership pass that does not return when there are no rings
LeadershipNeedsRings ==
    /\ pc = "temporal"
    /\ fraudRings # <<>>
    /\ accountMap' = analyzeRingLeadership(accountMap, fraudRings, transactions)
    /\ pc' = "leadership"
    /\ UNCHANGED <<transactions, mode, adjustment, allNodes, graph, cycles, ringMap, fanInMap,
                   fanOutMap, shellChains, shellNodes, fraudRings, result, run,
                   firstResult, csv>>

\* a leadership pass given the rings as the RingBuilder made them
LeadershipSeesRemoved ==
    /\ pc = "temporal"
    /\ accountMap' = analyzeRingLeadership(accountMap,
                        buildFraudRings(cycles, fanInMap, fanOutMap, shellChains,
                                        accountMap, transactions),
                        transactions)
    /\ pc' = "leadership"
    /\ UNCHANGED <<transactions, mode, adjustment, allNodes, graph, cycles, ringMap, fanInMap,
                   fanOutMap, shellChains, shellNodes, fraudRings, result, run,
                   firstResult, csv>>

Leadership ==
    /\ pc = "temporal"
    /\ accountMap' = analyzeRingLeadership(accountMap, fraudRings, transactions)
    /\ pc' = "leadership"
    /\ UNCHANGED <<transactions, mode, adjustment, allNodes, graph, cycles, ringMap, fanInMap,
                   fanOutMap, shellChains, shellNodes, fraudRings, result, run,
                   firstResult, csv>>

MultiStage ==
    /\ pc = "leadership"
    /\ accountMap' = detectMultiStageFlows(accountMap, fraudRings, transactions)
    /\ pc' = "multistage"
    /\ UNCHANGED <<transactions, mode, adjustment, allNodes, graph, cycles, ringMap, fanInMap,
                   fanOutMap, shellChains, shellNodes, fraudRings, result, run,
                   firstResult, csv>>

\* detectMuleCommunities, the append of its rings, the update of the
\* members' metadata and the re-sort of fraudRings
Community ==
    /\ pc = "multistage"
    /\ LET communities == detectMuleCommunities(graph, allNodes, accountMap, cycles,
                              fanInMap, fanOutMap, shellChains, fraudRings, transactions)
       IN /\ fraudRings' = SortByRisk(fraudRings
                              \o [i \in 1..Len(communities) |-> communities[i].ring])
          /\ accountMap' = [id \in DOMAIN accountMap |->
                              JoinCommunity(accountMap[id], communities)]
    /\ pc' = "community"
    /\ UNCHANGED <<transactions, mode, adjustment, allNodes, graph, cycles, ringMap, fanInMap,
                   fanOutMap, shellChains, shellNodes, result, run, firstResult, csv>>

FanInPromotion ==
    /\ pc = "community"
    /\ accountMap' = validateFanInTwoPhase(accountMap, transactions, graph, cycles,
                                           shellChains, shellNodes, fanInMap, fanOutMap)
    /\ pc' = "promoted"
    /\ UNCHANGED <<transactions, mode, adjustment, allNodes, graph, cycles, ringMap, fanInMap,
                   fanOutMap, shellChains, shellNodes, fraudRings, result, run,
                   firstResult, csv>>

\* the sort of the accounts, the summary and the measured wall time
Finish ==
    /\ pc = "promoted"
    /\ \E processingTime \in ProcessingTimes :
          result' = BuildResult(accountMap, allNodes, fraudRings, transactions,
                                processingTime)
    /\ pc' = "done"
    /\ UNCHANGED <<transactions, mode, adjustment, allNodes, graph, accountMap, cycles, ringMap,
                   fanInMap, fanOutMap, shellChains, shellNodes, fraudRings, run,
                   firstResult, csv>>

Next ==
    \/ BuildGraph
    \/ Detect
    \/ Score
    \/ BuildRings
    \/ Relationship
    \/ TemporalValidation
    \/ Leadership
    \/ MultiStage
    \/ Community
    \/ FanInPromotion
    \/ Finish

Spec == Init /\ [][Next]_vars

\* a second call of analyzeTransactions on the same input: nothing of the
\* first call is kept but the result it returned
Rerun ==
    /\ pc = "done"
    /\ run = 1
    /\ run' = 2
    /\ firstResult' = result
    /\ pc' = "start"
    /\ allNodes' = <<>>
    /\ graph' = <<>>
    /\ accountMap' = <<>>
    /\ cycles' = <<>>
    /\ ringMap' = <<>>
    /\ fanInMap' = <<>>
    /\ fanOutMap' = <<>>
    /\ shellChains' = <<>>
    /\ shellNodes' = {}
    /\ fraudRings' = <<>>
    /\ result' = NoResult
    /\ UNCHANGED <<transactions, mode, adjustment, csv>>

NextTwice == Next \/ Rerun

SpecTwice == Init /\ [][NextTwice]_vars

(***************************************************************************)
(* validateAndParseCSV (lib/csv-validator.ts).  A file is a list of lines  *)
(* and a line the list of its cells as split(',') leaves them; a blank     *)
(* line is one cell of white space.  Amounts are read in thousandths and   *)
(* kept in hundredths.                                                     *)
(***************************************************************************)
REQUIRED_COLUMNS == <<"transaction_id", "sender_id", "receiver_id", "amount", "timestamp">>

MaxErrors == 10

LargeDataset == 50000

\* String.prototype.trim on the cells of the inputs
Trim(v) ==
    CASE v = "  " -> ""
      [] v = " A " -> "A"
      [] v = " Timestamp " -> "Timestamp"
      [] OTHER -> v

\* String.prototype.toLowerCase on the header cells of the inputs
ToLowerCase(h) ==
    CASE h = "Transaction_ID" -> "transaction_id"
      [] h = "Amount" -> "amount"
      [] h = "Timestamp" -> "timestamp"
      [] OTHER -> h

\* parseFloat: the number a prefix of the text spells, in thousandths
parseFloat(v) ==
    CASE v = "100" -> [nan |-> FALSE, thousandths |-> 100000]
      [] v = "10.004" -> [nan |-> FALSE, thousandths |-> 10004]
      [] v = "5abc" -> [nan |-> FALSE, thousandths |-> 5000]
      [] v = "0" -> [nan |-> FALSE, thousandths |-> 0]
      [] v = "-5" -> [nan |-> FALSE, thousandths |-> 0 - 5000]
      [] OTHER -> [nan |-> TRUE, thousandths |-> 0]

\* Math.round(amount * 100) / 100, in hundredths, for amount > 0
RoundToCents(thousandths) == (thousandths + 5) \div 10

\* TIMESTAMP_REGEX.test: four, two and two digits, a space, three pairs
MatchesTimestampRegex(v) == v \in {"2024-01-01 10:00:00", "9999-99-99 99:99:99"}

\* !isNaN(new Date(timestamp).getTime())
DateParses(v) == v \in {"2024-01-01 10:00:00", "2024-01-01T10:00:00"}

IsBlankLine(line) == Len(line) = 1 /\ Trim(line[1]) = ""

\* content.trim().split('\n'): without the blank lines at either end
TrimmedLines(content) ==
    LET solid == {i \in 1..Len(content) : ~IsBlankLine(content[i])}
    IN IF solid = {} THEN <<>>
       ELSE SubSeq(content, SetMin(solid), SetMax(solid))

\* headers.indexOf(col), from 1; 0 when absent
IndexOf(headers, col) ==
    IF Includes(headers, col)
    THEN SetMin({i \in 1..Len(headers) : headers[i] = col})
    ELSE 0

CsvFailure(message) ==
    [success |-> FALSE, transactions |-> <<>>, errors |-> <<message>>, warnings |-> <<>>]

\* more than one error rejects the whole file
TooManyErrorsAtOne(errors) == Len(errors) > 0

\* errors.length > 10
TooManyErrors(errors) == Len(errors) > MaxErrors

\* the body of the row loop for one line that is not blank:
\* st = [errors, warnings, transactions, seenIds]
ParseRow(values, colIdx, nHeaders, lineNum, st) ==
    IF Len(values) < nHeaders
    THEN [st EXCEPT !.errors = Append(@, <<lineNum, "Expected columns">>)]
    ELSE
    LET transactionId == values[colIdx.transaction_id]
        senderId == values[colIdx.sender_id]
        receiverId == values[colIdx.receiver_id]
        amountStr == values[colIdx.amount]
        timestamp == values[colIdx.timestamp]
        amount == parseFloat(amountStr)
        st1 == [st EXCEPT
                  !.warnings = IF transactionId \in st.seenIds
                               THEN Append(@, <<lineNum, "Duplicate transaction_id">>)
                               ELSE @,
                  !.seenIds = @ \cup {transactionId}]
        st2 == [st1 EXCEPT
                  !.warnings = IF senderId = receiverId
                               THEN Append(@, <<lineNum, "Self-transfer">>)
                               ELSE @]
        st3 == [st2 EXCEPT
                  !.warnings = IF MatchesTimestampRegex(timestamp) THEN @
                               ELSE Append(@, <<lineNum, "Timestamp not in exact format">>)]
    IN IF transactionId = ""
       THEN [st EXCEPT !.errors = Append(@, <<lineNum, "Missing transaction_id">>)]
       ELSE IF senderId = ""
       THEN [st1 EXCEPT !.errors = Append(@, <<lineNum, "Missing sender_id">>)]
       ELSE IF receiverId = ""
       THEN [st1 EXCEPT !.errors = Append(@, <<lineNum, "Missing receiver_id">>)]
       ELSE IF amount.nan \/ amount.thousandths <= 0
       THEN [st2 EXCEPT !.errors = Append(@, <<lineNum, "Invalid amount">>)]
       ELSE IF ~MatchesTimestampRegex(timestamp) /\ ~DateParses(timestamp)
       THEN [st2 EXCEPT !.errors = Append(@, <<lineNum, "Invalid timestamp">>)]
       ELSE [st3 EXCEPT
               !.transactions =
                   Append(@, [transaction_id |-> transactionId,
                              sender_id |-> senderId,
                              receiver_id |-> receiverId,
                              amount |-> RoundToCents(amount.thousandths),
                              timestamp |-> timestamp])]

\* the files: a header and lines made of these cells
StandardHeader == REQUIRED_COLUMNS

OtherHeader ==
    <<"note", " Timestamp ", "Amount", "receiver_id", "sender_id", "Transaction_ID">>

ShortHeader == <<"transaction_id", "sender_id", "receiver_id", "amount">>

GoodTime == "2024-01-01 10:00:00"

Row(id, from, to, amount, ts) ==
    [transaction_id |-> id, sender_id |-> from, receiver_id |-> to, amount |-> amount,
     timestamp |-> ts]

\* valid rows, self-transfers, a repeated id, a self-transfer seen after
\* trimming, rows with one field missing or invalid (some of them
\* self-transfers or repeating an id), timestamps in another format
RowKinds ==
    { Row("T1", "A", "B", "100", GoodTime),
      Row("T2", "B", "A", "10.004", "9999-99-99 99:99:99"),
      Row("T3", "A", "A", "100", GoodTime),
      Row("T3", "B", "A", "100", GoodTime),
      Row("T1", "B", "C", "5abc", GoodTime),
      Row("T4", " A ", "A", "100", "2024-01-01T10:00:00"),
      Row("T5", "A", "A", "abc", GoodTime),
      Row("T1", "", "B", "100", GoodTime),
      Row("T6", "A", "", "100", GoodTime),
      Row("", "A", "B", "100", GoodTime),
      Row("T7", "A", "B", "0", GoodTime),
      Row("T8", "A", "A", "100", "yesterday") }

BadRow == Row("T9", "A", "B", "-5", GoodTime)

\* the line of a row under a header: each cell in the column of its name
LineOf(header, row) ==
    [c \in 1..Len(header) |->
        LET name == ToLowerCase(Trim(header[c]))
        IN IF name \in DOMAIN row THEN row[name] ELSE "x"]

MaxRows == 2

Lines(header) ==
    {LineOf(header, row) : row \in RowKinds} \cup {<<"T1", "A">>, <<"  ">>}

\* up to MaxRows lines after a number of invalid rows
Bodies(header, invalid) ==
    {[i \in 1..invalid |-> LineOf(header, BadRow)] \o body :
        body \in UNION {[1..n -> Lines(header)] : n \in 0..MaxRows}}

Files ==
    {<<StandardHeader>> \o body :
        body \in Bodies(StandardHeader, 0) \cup Bodies(StandardHeader, MaxErrors)
                 \cup Bodies(StandardHeader, MaxErrors + 1)}
    \cup {<<<<"  ">>, OtherHeader>> \o body \o <<<<"">>>> : body \in Bodies(OtherHeader, 0)}
    \cup {<<ShortHeader, LineOf(ShortHeader, BadRow)>>, <<>>, <<<<"  ">>, <<"">>>>}

InitCsv ==
    /\ transactions = <<>>
    /\ mode = "all"
    /\ adjustment = 0
    /\ run = 1
    /\ firstResult = NoResult
    /\ Fresh
    /\ \E content \in Files :
          csv = [at |-> "call", content |-> content, lines |-> <<>>, nHeaders |-> 0,
                 colIdx |-> <<>>, i |-> 0, errors |-> <<>>, warnings |-> <<>>,
                 transactions |-> <<>>, seenIds |-> {}, result |-> CsvFailure("none")]

PipelineIdle ==
    UNCHANGED <<transactions, mode, pc, allNodes, graph, accountMap, cycles, ringMap,
                fanInMap, fanOutMap, shellChains, shellNodes, fraudRings, result,
                adjustment, run, firstResult>>

\* the checks of the file and of its header
CsvOpen ==
    /\ csv.at = "call"
    /\ LET lines == TrimmedLines(csv.content)
           headers == IF lines = <<>> THEN <<>>
                      ELSE [c \in 1..Len(lines[1]) |-> ToLowerCase(Trim(lines[1][c]))]
           missingColumns == SelectSeq(REQUIRED_COLUMNS, LAMBDA col : ~Includes(headers, col))
       IN csv' =
            IF lines = <<>>
            THEN [csv EXCEPT !.at = "returned", !.result = CsvFailure("File is empty")]
            ELSE IF Len(lines) < 2
            THEN [csv EXCEPT !.at = "returned", !.lines = lines,
                     !.result = CsvFailure("File must have a header row and a data row")]
            ELSE IF Len(missingColumns) > 0
            THEN [csv EXCEPT !.at = "returned", !.lines = lines,
                     !.result = CsvFailure(<<"Missing required columns", missingColumns>>)]
            ELSE [csv EXCEPT
                    !.at = "rows", !.lines = lines, !.nHeaders = Len(headers),
                    !.colIdx = [col \in Range(REQUIRED_COLUMNS) |-> IndexOf(headers, col)],
                    !.i = 2]
    /\ PipelineIdle

\* one turn of the row loop
CsvRow ==
    /\ csv.at = "rows"
    /\ csv.i <= Len(csv.lines)
    /\ LET line == csv.lines[csv.i]
           values == [c \in 1..Len(line) |-> Trim(line[c])]
           st == ParseRow(values, csv.colIdx, csv.nHeaders, csv.i,
                          [errors |-> csv.errors, warnings |-> csv.warnings,
                           transactions |-> csv.transactions, seenIds |-> csv.seenIds])
       IN csv' = IF IsBlankLine(line) THEN [csv EXCEPT !.i = @ + 1]
                 ELSE [csv EXCEPT !.i = @ + 1, !.errors = st.errors,
                                  !.warnings = st.warnings,
                                  !.transactions = st.transactions,
                                  !.seenIds = st.seenIds]
    /\ PipelineIdle

\* after the loop: the size warning and the returned ValidationResult
CsvReturn ==
    /\ csv.at = "rows"
    /\ csv.i > Len(csv.lines)
    /\ LET warnings == IF Len(csv.transactions) > LargeDataset
                       THEN Append(csv.warnings, <<"Large dataset", Len(csv.transactions)>>)
                       ELSE csv.warnings
       IN csv' = [csv EXCEPT
                    !.at = "returned",
                    !.warnings = warnings,
                    !.result =
                        IF TooManyErrors(csv.errors)
                        THEN [success |-> FALSE,
                              transactions |-> <<>>,
                              errors |-> <<<<"Too many errors", Len(csv.errors)>>>>
                                         \o SubSeq(csv.errors, 1, Min(MaxErrors, Len(csv.errors))),
                              warnings |-> warnings]
                        ELSE [success |-> Len(csv.errors) = 0,
                              transactions |-> csv.transactions,
                              errors |-> csv.errors,
                              warnings |-> warnings]]
    /\ PipelineIdle

NextCsv ==
    \/ CsvOpen
    \/ CsvRow
    \/ CsvReturn

SpecCsv == InitCsv /\ [][NextCsv]_vars

(***************************************************************************)
(* Properties.                                                             *)
(***************************************************************************)
PatternSum(a) ==
    a.pattern_scores.fan_in + a.pattern_scores.fan_out + a.pattern_scores.cycle
    + a.pattern_scores.shell + a.pattern_scores.velocity

\* C1: at every stage boundary of analyzeTransactions and in the final
\* result, every account's suspicion_score is an integer between 0 and 100
C1_ScoreInRange ==
    /\ \A id \in DOMAIN accountMap : accountMap[id].suspicion_score \in 0..100
    /\ \A i \in 1..Len(result.accounts) :
          result.accounts[i].suspicion_score \in 0..100
    /\ \A i \in 1..Len(result.suspicious_accounts) :
          result.suspicious_accounts[i].suspicion_score \in 0..100

\* the caps acted: an account whose pattern scores add up to more than 100
\* was tagged multi-stage, and is returned with a score of 100
C1_CapsActed ==
    /\ pc = "done"
    /\ \E i \in 1..Len(result.accounts) :
          LET a == result.accounts[i]
          IN /\ PatternSum(a) > 100
             /\ Includes(a.detected_patterns, "multi_stage")
             /\ a.suspicion_score = 100

\* C2: in the final result, for every account, is_suspicious is true if and
\* only if suspicion_score > 0, also for the accounts whose score the
\* orchestrator boost or the multi-stage boost changed after the Scorer
\* (stated for the runs in which relationship intelligence subtracts
\* nothing, so that only translated code decides it)
C2_FlagMatchesScore ==
    (pc = "done" /\ adjustment = 0) =>
        \A i \in 1..Len(result.accounts) :
            result.accounts[i].is_suspicious <=> result.accounts[i].suspicion_score > 0

\* the stages from temporal cycle validation on
AfterTemporal == pc \in {"temporal", "leadership", "multistage", "community", "promoted", "done"}

CycleRingsOf(rings) == {i \in 1..Len(rings) : rings[i].pattern_type = "cycle"}

\* the earliest transaction from -> to: of the least timestamp, and the
\* first of the input among those
HopTx(from, to) ==
    LET on == {i \in 1..Len(transactions) :
                  /\ transactions[i].sender_id = from
                  /\ transactions[i].receiver_id = to}
        least == SetMin({Time(transactions[i].timestamp) : i \in on})
    IN transactions[SetMin({i \in on : Time(transactions[i].timestamp) = least})]

HopOf(members, i) == HopTx(members[i], members[(i % Len(members)) + 1])

\* hop timestamps non-decreasing, amount[i] >= 0.5 * amount[i-1], for i > 0
HopsInOrder(members) ==
    \A i \in 2..Len(members) :
        /\ Time(HopOf(members, i).timestamp) >= Time(HopOf(members, i - 1).timestamp)
        /\ 2 * HopOf(members, i).amount >= HopOf(members, i - 1).amount

\* C3: after temporal cycle validation every cycle ring still in fraud_rings
\* has, on the earliest transaction of each hop, non-decreasing timestamps
\* and no hop below half the amount of the hop before it; the ring of every
\* detected cycle that breaks either rule is gone
C3_SurvivingCyclesValid ==
    AfterTemporal =>
        /\ \A i \in CycleRingsOf(fraudRings) : HopsInOrder(fraudRings[i].members)
        /\ \A c \in 1..Len(cycles) :
              ~HopsInOrder(cycles[c]) =>
                  \A i \in 1..Len(fraudRings) : fraudRings[i].ring_id # RingId(c)
        /\ \A i \in CycleRingsOf(result.fraudRings) :
              HopsInOrder(result.fraudRings[i].members)

\* one run in which the ring of a cycle that breaks a rule is gone and
\* another cycle ring is returned
C3_RemovedAndKept ==
    /\ pc = "done"
    /\ \E c \in 1..Len(cycles) :
          /\ ~HopsInOrder(cycles[c])
          /\ \A i \in 1..Len(result.fraudRings) : result.fraudRings[i].ring_id # RingId(c)
    /\ CycleRingsOf(result.fraudRings) # {}

InSomeCycleRing(id, rings) ==
    \E i \in CycleRingsOf(rings) : Includes(rings[i].members, id)

CycleMarksAgree(a, rings) ==
    /\ a.pattern_scores.cycle > 0 <=> InSomeCycleRing(a.account_id, rings)
    /\ Includes(a.detected_patterns, "cycle") <=> InSomeCycleRing(a.account_id, rings)

\* C4: after temporal cycle validation and in the final result, for every
\* account, pattern_scores.cycle > 0 if and only if the account is a member
\* of a cycle ring still in fraud_rings, and 'cycle' is in detected_patterns
\* under exactly the same condition, however many cycles overlap
C4_CycleScoreIffInCycleRing ==
    AfterTemporal =>
        /\ \A id \in DOMAIN accountMap : CycleMarksAgree(accountMap[id], fraudRings)
        /\ \A i \in 1..Len(result.accounts) :
              CycleMarksAgree(result.accounts[i], result.fraudRings)

\* of two detected cycles through one account one ring is gone and one is
\* returned: the account keeps its cycle score, while a member of the
\* removed ring alone has lost it
C4_OverlappingCycles ==
    /\ pc = "done"
    /\ \E c, d \in 1..Len(cycles) :
          /\ \A i \in 1..Len(result.fraudRings) : result.fraudRings[i].ring_id # RingId(c)
          /\ \E i \in 1..Len(result.fraudRings) : result.fraudRings[i].ring_id = RingId(d)
          /\ \E i, j \in 1..Len(result.accounts) :
                /\ Includes(cycles[c], result.accounts[i].account_id)
                /\ Includes(cycles[d], result.accounts[i].account_id)
                /\ result.accounts[i].pattern_scores.cycle > 0
                /\ Includes(cycles[c], result.accounts[j].account_id)
                /\ result.accounts[j].pattern_scores.cycle = 0

RingIdsOf(rings) == {rings[i].ring_id : i \in 1..Len(rings)}

InCommunityRing(id, rings) ==
    \E i \in 1..Len(rings) :
        rings[i].pattern_type = "community" /\ Includes(rings[i].members, id)

\* C5: in the final result (a) every id in an account's ring_ids is the
\* ring_id of a ring in fraud_rings, and (b) every member of a ring in
\* fraud_rings has the ring's id in its ring_ids, unless it is a member of a
\* community ring that subsumed the ring (a pattern ring is subsumed by the
\* community rings of its members)
C5_RingMembershipClosed ==
    pc = "done" =>
        /\ \A i \in 1..Len(result.accounts) :
              Range(result.accounts[i].ring_ids) \subseteq RingIdsOf(result.fraudRings)
        /\ \A r \in 1..Len(result.fraudRings) :
              \A i \in 1..Len(result.accounts) :
                  LET R == result.fraudRings[r]
                      a == result.accounts[i]
                  IN Includes(R.members, a.account_id) =>
                        \/ Includes(a.ring_ids, R.ring_id)
                        \/ /\ R.pattern_type # "community"
                           /\ InCommunityRing(a.account_id, result.fraudRings)

\* temporal validation removed a ring whose id a member had, and a
\* community ring subsumed a pattern ring that is still returned
C5_RemovedAndSubsumed ==
    /\ pc = "done"
    /\ \E c \in 1..Len(cycles) : RingId(c) \notin RingIdsOf(result.fraudRings)
    /\ \E r \in 1..Len(result.fraudRings) :
          \E i \in 1..Len(result.accounts) :
              /\ result.fraudRings[r].pattern_type # "community"
              /\ Includes(result.fraudRings[r].members, result.accounts[i].account_id)
              /\ ~Includes(result.accounts[i].ring_ids, result.fraudRings[r].ring_id)

SecondRunDone == pc = "done" /\ run = 2

WithoutTime(res) == [res EXCEPT !.summary.processing_time_seconds = 0]

AfterRings ==
    pc \in {"rings", "relationship", "temporal", "leadership", "multistage", "community",
            "promoted", "done"}

PatternTypes == <<"cycle", "fan_in", "fan_out", "shell_chain">>

TypeRank(type) == CHOOSE k \in 1..Len(PatternTypes) : PatternTypes[k] = type

PatternRingsOf(rings) == {i \in 1..Len(rings) : rings[i].pattern_type # "community"}

CommunityRingsOf(rings) == {i \in 1..Len(rings) : rings[i].pattern_type = "community"}

\* the n of a ring id RING_n, 0 if the id is not of that form
NumberOf(rid) ==
    IF \E n \in 1..Len(transactions) : RingId(n) = rid
    THEN CHOOSE n \in 1..Len(transactions) : RingId(n) = rid
    ELSE 0

\* the n of a ring id RING_COMM_n, 0 if the id is not of that form
CommNumberOf(rid) ==
    IF \E n \in 1..Len(transactions) : CommRingId(n) = rid
    THEN CHOOSE n \in 1..Len(transactions) : CommRingId(n) = rid
    ELSE 0

RingIdsInOrder(rings) ==
    /\ \A i, j \in 1..Len(rings) : i # j => rings[i].ring_id # rings[j].ring_id
    /\ \A i \in PatternRingsOf(rings) : NumberOf(rings[i].ring_id) >= 1
    /\ \A i, j \in PatternRingsOf(rings) :
          TypeRank(rings[i].pattern_type) < TypeRank(rings[j].pattern_type)
              => NumberOf(rings[i].ring_id) < NumberOf(rings[j].ring_id)
    /\ {CommNumberOf(rings[i].ring_id) : i \in CommunityRingsOf(rings)}
           = 1..Cardinality(CommunityRingsOf(rings))

\* C7: within one run all ring_id strings of fraud_rings are pairwise
\* distinct; pattern ring ids are RING_n with the n of one counter (1, 2, ...
\* without a gap when the rings are built) that numbers the cycle rings
\* before the fan_in rings, those before the fan_out rings and those before
\* the shell_chain rings; community rings are numbered RING_COMM_1, 2, ...
\* by a counter of their own
C7_RingIdsDistinctAndOrdered ==
    AfterRings =>
        /\ RingIdsInOrder(fraudRings)
        /\ RingIdsInOrder(result.fraudRings)
        /\ pc = "rings" =>
              {NumberOf(fraudRings[i].ring_id) : i \in 1..Len(fraudRings)}
                  = 1..Len(fraudRings)

\* a result with a ring of each of the four pattern types and a community
\* ring
C7_AllRingTypes ==
    /\ pc = "done"
    /\ \A k \in 1..Len(PatternTypes) :
          \E i \in 1..Len(result.fraudRings) :
              result.fraudRings[i].pattern_type = PatternTypes[k]
    /\ CommunityRingsOf(result.fraudRings) # {}

\* the distinct senders with a transaction to r at a time in [from, to]
SendersWithin(r, from, to) ==
    {transactions[i].sender_id : i \in {j \in 1..Len(transactions) :
        /\ transactions[j].receiver_id = r
        /\ Time(transactions[j].timestamp) >= from
        /\ Time(transactions[j].timestamp) <= to}}

\* some interval of 72 hours, boundaries included, holds transactions to r
\* from at least 10 distinct senders (an interval may be taken to start at
\* a transaction to r)
HasFanInInterval(r) ==
    \E i \in 1..Len(transactions) :
        /\ transactions[i].receiver_id = r
        /\ Cardinality(SendersWithin(r, Time(transactions[i].timestamp),
                                     Time(transactions[i].timestamp) + 72)) >= 10

FanInRingsOf(rings, r) ==
    {i \in 1..Len(rings) : rings[i].pattern_type = "fan_in" /\ rings[i].members[1] = r}

FanInExact(rings) ==
    \A r \in DOMAIN accountMap : FanInRingsOf(rings, r) # {} <=> HasFanInInterval(r)

FanInRecorded(rings) ==
    \A k \in 1..Len(fanInMap) :
        LET e == fanInMap[k]
        IN /\ Time(e.windowEnd) - Time(e.windowStart) <= 72
           /\ Cardinality(Range(e.members)) >= 10
           /\ Range(e.members)
                 \subseteq SendersWithin(e.hub, Time(e.windowStart), Time(e.windowEnd))
           /\ \A i \in FanInRingsOf(rings, e.hub) :
                 rings[i].members = <<e.hub>> \o e.members

\* C8: where fan-in detection runs, an account r is the receiver
\* (members[0]) of a fan_in ring if and only if some interval of at most 72
\* hours, boundaries included, holds transactions to r from at least 10
\* distinct senders; the recorded senders all have a transaction to r inside
\* the recorded [windowStart, windowEnd], and windowEnd - windowStart <= 72 h
C8_FanInExact ==
    (runFanIn /\ AfterRings) =>
        /\ FanInExact(fraudRings)
        /\ FanInRecorded(fraudRings)
        /\ pc = "done" => FanInExact(result.fraudRings)

\* a fan_in ring was returned for a receiver whose recorded window is
\* exactly 72 hours wide
C8_WindowOf72Hours ==
    /\ pc = "done"
    /\ \E k \in 1..Len(fanInMap) :
          /\ Time(fanInMap[k].windowEnd) - Time(fanInMap[k].windowStart) = 72
          /\ FanInRingsOf(result.fraudRings, fanInMap[k].hub) # {}

ShellRingsOf(rings) == {i \in 1..Len(rings) : rings[i].pattern_type = "shell_chain"}

IsEdge(from, to) ==
    \E j \in 1..Len(transactions) :
        transactions[j].sender_id = from /\ transactions[j].receiver_id = to

\* at least 3 hops, distinct members, consecutive members joined by a
\* directed edge, intermediates with at most 3 transactions
IsShellChain(members) ==
    /\ Len(members) - 1 >= 3
    /\ \A i, j \in 1..Len(members) : i # j => members[i] # members[j]
    /\ \A i \in 1..(Len(members) - 1) : IsEdge(members[i], members[i + 1])
    /\ \A i \in 2..(Len(members) - 1) : accountMap[members[i]].total_transactions <= 3

\* C9: every shell_chain ring with members [a0..am] has m >= 3, pairwise
\* distinct members, a directed edge of the graph from each member to the
\* next, and total_transactions <= 3 at every intermediate member
C9_ShellRingsAreChains ==
    AfterRings =>
        /\ \A i \in ShellRingsOf(fraudRings) : IsShellChain(fraudRings[i].members)
        /\ \A i \in ShellRingsOf(result.fraudRings) :
              IsShellChain(result.fraudRings[i].members)

\* a shell_chain ring was returned with an intermediate member of exactly 3
\* transactions
C9_IntermediateWithThree ==
    /\ pc = "done"
    /\ \E i \in ShellRingsOf(result.fraudRings) :
          \E k \in 2..(Len(result.fraudRings[i].members) - 1) :
              accountMap[result.fraudRings[i].members[k]].total_transactions = 3

AfterCommunity == pc \in {"community", "promoted", "done"}

Suspicious == {id \in DOMAIN accountMap : accountMap[id].suspicion_score > 0}

\* an edge, in either direction, between two suspicious accounts
SuspLinked(a, b) ==
    /\ a \in Suspicious
    /\ b \in Suspicious
    /\ IsEdge(a, b) \/ IsEdge(b, a)

\* the accounts reachable from those of S in the suspicious subgraph
RECURSIVE ReachFrom(_)
ReachFrom(S) ==
    LET more == S \cup {b \in Suspicious : \E a \in S : SuspLinked(a, b)}
    IN IF more = S THEN S ELSE ReachFrom(more)

ComponentOf(id) == ReachFrom({id})

\* the evidence categories present in a set of accounts
CategoriesOf(M) ==
    {c \in {"cycle", "fan_in", "fan_out", "shell", "bridge", "density"} :
        \/ c = "cycle" /\ \E n \in M : \E i \in 1..Len(cycles) : n \in Range(cycles[i])
        \/ c = "fan_in" /\ \E n \in M : FanHas(fanInMap, n)
        \/ c = "fan_out" /\ \E n \in M : FanHas(fanOutMap, n)
        \/ c = "shell" /\ \E n \in M : \E i \in 1..Len(shellChains) :
                               n \in Range(shellChains[i])
        \/ c = "bridge" /\ \E n \in M :
                               Cardinality({x \in Suspicious : SuspLinked(n, x)}) >= 2
        \/ c = "density" /\ Cardinality({e \in M \X M : IsEdge(e[1], e[2])})
                                >= Cardinality(M)}

IsCommunity(members) ==
    /\ Len(members) >= 2
    /\ Cardinality(Range(members)) = Len(members)
    /\ Range(members) \subseteq Suspicious
    /\ Range(members) = ComponentOf(members[1])
    /\ Cardinality(CategoriesOf(Range(members))) >= 2

\* the components of at least 2 accounts with fewer than 2 categories
RejectedComponents ==
    {M \in {ComponentOf(id) : id \in Suspicious} :
        Cardinality(M) >= 2 /\ Cardinality(CategoriesOf(M)) < 2}

CommunitiesValid(rings) ==
    /\ \A i \in CommunityRingsOf(rings) : IsCommunity(rings[i].members)
    /\ \A M \in RejectedComponents :
          \A i \in CommunityRingsOf(rings) : Range(rings[i].members) # M
    /\ {CommNumberOf(rings[i].ring_id) : i \in CommunityRingsOf(rings)}
          = 1..Cardinality(CommunityRingsOf(rings))

SharingMember(rings, c) ==
    {rings[i].ring_id : i \in {j \in 1..Len(rings) :
                                  Range(rings[j].members) \cap Range(c.members) # {}}}

\* the community ring of the list that has the account as a member
CommunityOf(rings, id) ==
    {i \in CommunityRingsOf(rings) : Includes(rings[i].members, id)}

\* what the community stage does to the rings and to the ring_ids
SubsumptionStep ==
    /\ CommunityRingsOf(fraudRings) = {}
    /\ Len(fraudRings') = Len(fraudRings) + Cardinality(CommunityRingsOf(fraudRings'))
    /\ \A i \in 1..Len(fraudRings) : \E j \in 1..Len(fraudRings') :
          fraudRings'[j] = fraudRings[i]
    /\ \A id \in DOMAIN accountMap :
          IF CommunityOf(fraudRings', id) = {}
          THEN accountMap'[id].ring_ids = accountMap[id].ring_ids
          ELSE \A i \in CommunityOf(fraudRings', id) :
                 LET subsumed == SharingMember(fraudRings, fraudRings'[i])
                 IN /\ \A rid \in subsumed : ~Includes(accountMap'[id].ring_ids, rid)
                    /\ accountMap'[id].ring_ids =
                          Append(SelectSeq(accountMap[id].ring_ids,
                                           LAMBDA rid : rid \notin subsumed),
                                 fraudRings'[i].ring_id)

\* C11: the community stage keeps every pattern ring of fraud_rings as it
\* was and only adds community rings; on every member of a community the
\* ids of the subsumed pattern rings are dropped from ring_ids and the id
\* of the community ring is appended; the ring_ids of the other accounts
\* are unchanged
C11_SubsumptionAsymmetric ==
    [][(pc = "multistage" /\ pc' = "community") => SubsumptionStep]_vars

\* after the community stage: a pattern ring is still listed although a
\* member of it carries only the id of its community, and an account
\* outside every community still carries the id of a pattern ring
C11_SubsumedRingKept ==
    /\ pc = "community"
    /\ \E i \in CommunityRingsOf(fraudRings) : \E j \in PatternRingsOf(fraudRings) :
          \E id \in Range(fraudRings[i].members) \cap Range(fraudRings[j].members) :
              accountMap[id].ring_ids = <<fraudRings[i].ring_id>>
    /\ \E id \in DOMAIN accountMap :
          /\ CommunityOf(fraudRings, id) = {}
          /\ accountMap[id].ring_ids # <<>>

\* the input is three transactions a -> b, b -> c, c -> a, listed in any
\* order, in time order along the cycle and each amount at least half of
\* the amount of the hop before
IsOrderedTriangle(txs) ==
    /\ Len(txs) = 3
    /\ \E i, j, k \in 1..3 :
          /\ {i, j, k} = 1..3
          /\ Cardinality({txs[i].sender_id, txs[j].sender_id, txs[k].sender_id}) = 3
          /\ txs[i].receiver_id = txs[j].sender_id
          /\ txs[j].receiver_id = txs[k].sender_id
          /\ txs[k].receiver_id = txs[i].sender_id
          /\ txs[i].timestamp <= txs[j].timestamp
          /\ txs[j].timestamp <= txs[k].timestamp
          /\ 2 * txs[j].amount >= txs[i].amount
          /\ 2 * txs[k].amount >= txs[j].amount

\* C12: an input that is a 3-cycle in time order, with amounts of at
\* least half of the hop before, yields exactly one cycle ring in the
\* result and pattern_scores.cycle = 40 on its three accounts, in whatever
\* order the three transactions are listed
C12_OrderedTriangleSurvives ==
    (pc = "done" /\ runCycles /\ IsOrderedTriangle(transactions)) =>
        /\ Cardinality(CycleRingsOf(result.fraudRings)) = 1
        /\ Len(result.accounts) = 3
        /\ \A i \in 1..Len(result.accounts) :
              result.accounts[i].pattern_scores.cycle = 40

\* the four patterns: the mode that selects it, the pattern_type of its
\* rings and its tag, and its pattern score
Patterns ==
    {[mode |-> "cycles", type |-> "cycle", score |-> "cycle"],
     [mode |-> "fan-in", type |-> "fan_in", score |-> "fan_in"],
     [mode |-> "fan-out", type |-> "fan_out", score |-> "fan_out"],
     [mode |-> "shell", type |-> "shell_chain", score |-> "shell"]}

DisabledPatterns == {p \in Patterns : mode # "all" /\ mode # p.mode}

NoTraceOf(p, accounts, rings) ==
    /\ \A i \in 1..Len(rings) : rings[i].pattern_type # p.type
    /\ \A i \in 1..Len(accounts) :
          /\ accounts[i].pattern_scores[p.score] = 0
          /\ ~Includes(accounts[i].detected_patterns, p.type)

\* more than 15 transactions a day over the span of the account's
\* transactions, a span of less than a day counting as one day
IsFast(id) ==
    LET mine == {j \in 1..Len(transactions) :
                    transactions[j].sender_id = id \/ transactions[j].receiver_id = id}
        span == Max(24, CHOOSE d \in 0..200 :
                          \E j, k \in mine :
                              /\ d = transactions[j].timestamp - transactions[k].timestamp
                              /\ \A l \in mine :
                                    /\ transactions[l].timestamp <= transactions[j].timestamp
                                    /\ transactions[l].timestamp >= transactions[k].timestamp)
    IN 24 * Cardinality(mine) > 15 * span

\* C13: in the modes cycles, fan-in, fan-out and shell the result has no
\* ring of a pattern whose detector is not selected, and every account has
\* pattern score 0 and no tag for each such pattern; the velocity score is
\* still given
C13_DisabledDetectorsLeaveNoTrace ==
    /\ \A p \in DisabledPatterns :
          /\ NoTraceOf(p, [i \in 1..Len(allNodes) |-> accountMap[allNodes[i]]], fraudRings)
          /\ NoTraceOf(p, result.accounts, result.fraudRings)
    /\ (pc = "done" /\ mode # "all") =>
          \A i \in 1..Len(result.accounts) :
              result.accounts[i].pattern_scores.velocity
                  = IF IsFast(result.accounts[i].account_id) THEN 15 ELSE 0

\* a run in mode fan-in returned an account that sends to 10 receivers at
\* the same time with fan_out 0, velocity 15 and the role of orchestrator
\* of its fan_in ring
C13_FanOutHubInFanInMode ==
    /\ pc = "done"
    /\ mode = "fan-in"
    /\ \E i \in 1..Len(result.accounts) :
          LET a == result.accounts[i]
          IN /\ a.pattern_scores.fan_out = 0
             /\ a.pattern_scores.fan_in = 30
             /\ a.pattern_scores.velocity = 15
             /\ a.ring_role = "ORCHESTRATOR"
             /\ Cardinality({transactions[j].receiver_id :
                                j \in {k \in 1..Len(transactions) :
                                          transactions[k].sender_id = a.account_id}}) >= 10

\* position of an account in the order of first appearance in the input
NodeIndex(id) == CHOOSE k \in 1..Len(allNodes) : allNodes[k] = id

\* C14: in the result fraud_rings is in order of non-increasing
\* risk_score and accounts is in order of non-increasing suspicion_score
C14_ResultSorted ==
    pc = "done" =>
        /\ \A i, j \in 1..Len(result.fraudRings) :
              i < j => result.fraudRings[i].risk_score >= result.fraudRings[j].risk_score
        /\ \A i, j \in 1..Len(result.accounts) :
              i < j => result.accounts[i].suspicion_score
                          >= result.accounts[j].suspicion_score

\* a result from which a cycle ring was removed, with a community ring
\* ahead of a pattern ring of lower risk, and an account ahead of one that
\* came earlier in the input
C14_ResortedAfterCommunity ==
    /\ pc = "done"
    /\ Len(cycles) > Cardinality(CycleRingsOf(result.fraudRings))
    /\ \E i \in CommunityRingsOf(result.fraudRings) :
          \E j \in PatternRingsOf(result.fraudRings) :
              /\ i < j
              /\ result.fraudRings[i].risk_score > result.fraudRings[j].risk_score
    /\ \E i, j \in 1..Len(result.accounts) :
          /\ i < j
          /\ NodeIndex(result.accounts[i].account_id)
                > NodeIndex(result.accounts[j].account_id)

\* the account ids that occur in the input
InputIds ==
    {transactions[j].sender_id : j \in 1..Len(transactions)}
    \cup {transactions[j].receiver_id : j \in 1..Len(transactions)}

\* C15: the summary counts the distinct account ids of the input, the
\* input transactions, the accounts with suspicion_score > 0 (the length
\* of suspicious_accounts) and the rings of fraud_rings
C15_SummaryConsistent ==
    pc = "done" =>
        /\ result.summary.total_accounts_analyzed = Cardinality(InputIds)
        /\ result.summary.total_accounts_analyzed = Len(result.accounts)
        /\ result.summary.total_transactions = Len(transactions)
        /\ result.summary.suspicious_accounts_flagged
             = Cardinality({i \in 1..Len(result.accounts) :
                              result.accounts[i].suspicion_score > 0})
        /\ result.summary.suspicious_accounts_flagged = Len(result.suspicious_accounts)
        /\ result.summary.fraud_rings_detected = Len(result.fraudRings)

\* a result with a removed cycle ring, a community ring next to the
\* pattern ring it subsumes, an account of score 0 and more transactions
\* than accounts
C15_CountsDiffer ==
    /\ pc = "done"
    /\ Len(cycles) > Cardinality(CycleRingsOf(result.fraudRings))
    /\ CommunityRingsOf(result.fraudRings) # {}
    /\ PatternRingsOf(result.fraudRings) # {}
    /\ \E i \in 1..Len(result.accounts) : result.accounts[i].suspicion_score = 0
    /\ result.summary.suspicious_accounts_flagged > 0
    /\ result.summary.total_transactions # result.summary.total_accounts_analyzed

EmptyResult ==
    /\ result.accounts = <<>>
    /\ result.fraudRings = <<>>
    /\ result.suspicious_accounts = <<>>
    /\ result.summary.total_accounts_analyzed = 0
    /\ result.summary.total_transactions = 0
    /\ result.summary.suspicious_accounts_flagged = 0
    /\ result.summary.fraud_rings_detected = 0

\* C16: on the empty input, in every mode, every stage before the return
\* can take its step (no pass fails on no accounts and no rings), and what
\* is returned has no accounts, no rings, no suspicious accounts and a
\* summary whose counts are all 0
C16_EmptyInputEmptyResult ==
    transactions = <<>> =>
        /\ pc = "done" \/ (ENABLED Next)
        /\ pc = "done" => EmptyResult

\* the call on the empty input in mode shell has returned, every pass
\* having run on no accounts and no rings
C16_EmptyInputReturned ==
    /\ transactions = <<>>
    /\ mode = "shell"
    /\ pc = "done"
    /\ accountMap = <<>>
    /\ fraudRings = <<>>
    /\ result.summary.total_transactions = 0

\* the transactions (by position in the input) on the hop edges of a cycle
OnHops(members) ==
    {j \in 1..Len(transactions) :
        \E i \in 1..Len(members) :
            /\ transactions[j].sender_id = members[i]
            /\ transactions[j].receiver_id = members[(i % Len(members)) + 1]}

\* of these, the first of the input on each hop edge
FirstOnHops(members) ==
    {j \in OnHops(members) :
        \A k \in OnHops(members) :
            (/\ transactions[k].sender_id = transactions[j].sender_id
             /\ transactions[k].receiver_id = transactions[j].receiver_id) => j <= k}

RECURSIVE AmountOf(_)
AmountOf(S) ==
    IF S = {} THEN 0
    ELSE LET j == CHOOSE x \in S : TRUE
         IN transactions[j].amount + AmountOf(S \ {j})

\* C17 as stated: the total_value of every cycle ring is the sum of the
\* amounts of the first transaction on each hop edge of the ring
C17_TotalValueOfFirstTxs ==
    AfterRings =>
        /\ \A i \in CycleRingsOf(fraudRings) :
              fraudRings[i].total_value = AmountOf(FirstOnHops(fraudRings[i].members))
        /\ \A i \in CycleRingsOf(result.fraudRings) :
              result.fraudRings[i].total_value
                  = AmountOf(FirstOnHops(result.fraudRings[i].members))

\* C17 as amended: the total_value of every cycle ring is the sum of the
\* amounts of all transactions on the hop edges of the ring
C17_TotalValueOfAllTxs ==
    AfterRings =>
        /\ \A i \in CycleRingsOf(fraudRings) :
              fraudRings[i].total_value = AmountOf(OnHops(fraudRings[i].members))
        /\ \A i \in CycleRingsOf(result.fraudRings) :
              result.fraudRings[i].total_value
                  = AmountOf(OnHops(result.fraudRings[i].members))

\* a cycle ring was built on a cycle with two transactions on a hop edge
C17_RepeatedHop ==
    /\ AfterRings
    /\ \E i \in CycleRingsOf(fraudRings) :
          OnHops(fraudRings[i].members) # FirstOnHops(fraudRings[i].members)

\* the rings in which the leadership pass ranks the account first
LedRings(id) ==
    {i \in 1..Len(fraudRings) :
        /\ Cardinality(Range(fraudRings[i].members)) >= 2
        /\ Ranked(fraudRings[i], transactions)[1].id = id}

\* C18: the leadership pass leaves suspicion_score at min(100, score + 10)
\* on every account that it ranks ORCHESTRATOR in at least one ring, also
\* when it does so in several rings, and unchanged on every other account
C18_OrchestratorBoostOnce ==
    [][(pc = "temporal" /\ pc' = "leadership") =>
          \A id \in DOMAIN accountMap :
              accountMap'[id].suspicion_score =
                  IF LedRings(id) # {}
                  THEN Min(100, accountMap[id].suspicion_score + 10)
                  ELSE accountMap[id].suspicion_score]_vars

\* the pattern types of the rings the account is a member of
TypesOf(id) ==
    {fraudRings[i].pattern_type :
        i \in {j \in 1..Len(fraudRings) : Includes(fraudRings[j].members, id)}}

\* the times of the transactions between the account and a member of one
\* of its rings of the type
TimesWith(id, type) ==
    LET peers == UNION {Range(fraudRings[i].members) :
                          i \in {j \in 1..Len(fraudRings) :
                                    /\ fraudRings[j].pattern_type = type
                                    /\ Includes(fraudRings[j].members, id)}}
    IN {transactions[j].timestamp :
          j \in {k \in 1..Len(transactions) :
                    \/ transactions[k].sender_id = id /\ transactions[k].receiver_id \in peers
                    \/ transactions[k].receiver_id = id /\ transactions[k].sender_id \in peers}}

EarliestWith(id, type) == SetMin(TimesWith(id, type))

\* each type of the account's rings once, in order of earliest transaction
IsFlowOf(flow, id) ==
    /\ Range(flow) = TypesOf(id)
    /\ Len(flow) = Cardinality(TypesOf(id))
    /\ \A i \in 1..(Len(flow) - 1) :
          EarliestWith(id, flow[i]) <= EarliestWith(id, flow[i + 1])

\* C19: the multi-stage pass sets laundering_stage to MULTI_STAGE, adds
\* multi_stage to detected_patterns and raises suspicion_score to
\* min(100, score + 20), once, exactly on the accounts that are members of
\* rings of at least 2 pattern types when the pass runs; the flow_pattern
\* of such an account lists each of these types once, in order of the
\* earliest transaction between the account and a member of its rings of
\* the type
C19_MultiStageTagging ==
    [][(pc = "leadership" /\ pc' = "multistage") =>
          \A id \in DOMAIN accountMap :
              IF Cardinality(TypesOf(id)) >= 2
              THEN /\ accountMap'[id].laundering_stage = "MULTI_STAGE"
                   /\ Includes(accountMap'[id].detected_patterns, "multi_stage")
                   /\ accountMap'[id].suspicion_score
                        = Min(100, accountMap[id].suspicion_score + 20)
                   /\ IsFlowOf(accountMap'[id].flow_pattern, id)
              ELSE /\ accountMap'[id].laundering_stage # "MULTI_STAGE"
                   /\ ~Includes(accountMap'[id].detected_patterns, "multi_stage")
                   /\ accountMap'[id].suspicion_score = accountMap[id].suspicion_score]_vars

\* after the pass: an account whose shell chain transaction is earlier
\* than those of its cycle is tagged with the flow shell_chain, cycle,
\* though its cycle ring comes first; a member of rings of one type only
\* is not tagged
C19_FlowAgainstRingOrder ==
    /\ pc = "multistage"
    /\ \E id \in DOMAIN accountMap :
          /\ accountMap[id].laundering_stage = "MULTI_STAGE"
          /\ accountMap[id].flow_pattern = <<"shell_chain", "cycle">>
          /\ EarliestWith(id, "shell_chain") < EarliestWith(id, "cycle")
          /\ \E i, j \in 1..Len(fraudRings) :
                /\ i < j
                /\ fraudRings[i].pattern_type = "cycle"
                /\ fraudRings[j].pattern_type = "shell_chain"
                /\ Includes(fraudRings[i].members, id)
                /\ Includes(fraudRings[j].members, id)
    /\ \E id \in DOMAIN accountMap :
          /\ Cardinality(TypesOf(id)) = 1
          /\ accountMap[id].laundering_stage # "MULTI_STAGE"

\* the accounts that both send to and receive from another account
OnSomePath ==
    {n \in InputIds :
        /\ \E m \in InputIds \ {n} : IsEdge(n, m)
        /\ \E m \in InputIds \ {n} : IsEdge(m, n)}

\* a simple directed path from cur through every account of rest, in some
\* order, and then an edge back to start
RECURSIVE ClosesThrough(_, _, _)
ClosesThrough(start, cur, rest) ==
    IF rest = {} THEN IsEdge(cur, start)
    ELSE \E n \in rest : IsEdge(cur, n) /\ ClosesThrough(start, n, rest \ {n})

\* the graph has a simple directed cycle that visits exactly S
HasCycleOn(S) ==
    LET start == CHOOSE n \in S : TRUE
    IN ClosesThrough(start, start, S \ {start})

CycleSets == {S \in SUBSET OnSomePath : Cardinality(S) \in 3..5 /\ HasCycleOn(S)}

IsSimpleCycle(cycle) ==
    /\ Len(cycle) \in 3..5
    /\ Cardinality(Range(cycle)) = Len(cycle)
    /\ \A i \in 1..Len(cycle) : IsEdge(cycle[i], cycle[(i % Len(cycle)) + 1])

\* C20: for every set S of 3, 4 or 5 accounts with a simple directed
\* cycle that visits exactly S, detectCycles retains exactly one cycle
\* with node set S; every retained cycle is a simple directed cycle of 3
\* to 5 accounts of the graph; and its first member is the one of its
\* members that appears first in the input
C20_CyclesCompleteAndDeduplicated ==
    (pc = "detected" /\ runCycles) =>
        /\ \A S \in CycleSets :
              Cardinality({i \in 1..Len(cycles) : Range(cycles[i]) = S}) = 1
        /\ \A i \in 1..Len(cycles) :
              /\ IsSimpleCycle(cycles[i])
              /\ \A k \in 2..Len(cycles[i]) :
                    NodeIndex(cycles[i][1]) < NodeIndex(cycles[i][k])

\* the detector has run on a graph with two cycles on the same three
\* accounts, one in each direction, and with cycles on 4 accounts, and
\* retained one cycle on each of these sets
C20_BothDirectionsOneRetained ==
    /\ pc = "detected"
    /\ \E i \in 1..Len(cycles) :
          /\ Len(cycles[i]) = 3
          /\ IsSimpleCycle(<<cycles[i][3], cycles[i][2], cycles[i][1]>>)
          /\ \A j \in 1..Len(cycles) : Range(cycles[j]) = Range(cycles[i]) => j = i
    /\ \E i \in 1..Len(cycles) : Len(cycles[i]) = 4

(***************************************************************************)
(* The Scorer's contract.                                                  *)
(***************************************************************************)
TouchingTxs(id) ==
    {j \in 1..Len(transactions) :
        transactions[j].sender_id = id \/ transactions[j].receiver_id = id}

\* more than 15 transactions a day over the span of the account's
\* transactions, a span of less than a day counting as one day
TxPerDayOver15(id) ==
    LET mine == TouchingTxs(id)
        times == {transactions[j].timestamp : j \in mine}
    IN /\ mine # {}
       /\ \E hi, lo \in times :
             /\ \A t \in times : lo <= t /\ t <= hi
             /\ 24 * Cardinality(mine) > 15 * (IF hi - lo > 24 THEN hi - lo ELSE 24)

DegreeOf(id) ==
    Cardinality({transactions[j].sender_id :
                    j \in {k \in 1..Len(transactions) : transactions[k].receiver_id = id}})
    + Cardinality({transactions[j].receiver_id :
                    j \in {k \in 1..Len(transactions) : transactions[k].sender_id = id}})

InDetectedCycle(id) == \E i \in 1..Len(cycles) : id \in Range(cycles[i])

\* the account's transactions in time order, each but the last with the
\* interval to the next: more than 60% of these intervals differ from
\* their mean by less than 30% of it
RegularIntervals(id) ==
    LET mine == TouchingTxs(id)
        before(j, k) == \/ transactions[j].timestamp < transactions[k].timestamp
                        \/ /\ transactions[j].timestamp = transactions[k].timestamp
                           /\ j < k
        next(j) == CHOOSE k \in mine :
                      before(j, k) /\ \A l \in mine : before(j, l) => (l = k \/ before(k, l))
        withNext == {j \in mine : \E k \in mine : before(j, k)}
        n == Cardinality(withNext)
        gap == Stored([j \in withNext |->
                          transactions[next(j)].timestamp - transactions[j].timestamp])
        total == SumSeq([i \in 1..Len(transactions) |->
                            IF i \in withNext THEN gap[i] ELSE 0])
        near == {j \in withNext :
                    /\ total > 0
                    /\ 10 * (gap[j] * n - total) < 3 * total
                    /\ 10 * (total - gap[j] * n) < 3 * total}
    IN 10 * Cardinality(near) > 6 * n

IsDampened(id) ==
    /\ DegreeOf(id) > 100
    /\ ~InDetectedCycle(id)
    /\ Cardinality(TouchingTxs(id)) > 10
    /\ RegularIntervals(id)

IsShellIntermediary(id) ==
    \E i \in 1..Len(shellChains) :
        \E k \in 2..(Len(shellChains[i]) - 1) : shellChains[i][k] = id

ScoredAsSpecified(a) ==
    LET id == a.account_id
        sum == PatternSum(a)
        tagged == Includes(a.triggered_algorithms, "False Positive Dampening")
    IN /\ a.pattern_scores.cycle = IF InDetectedCycle(id) THEN 40 ELSE 0
       /\ a.pattern_scores.fan_in = IF FanHas(fanInMap, id) THEN 30 ELSE 0
       /\ a.pattern_scores.fan_out = IF FanHas(fanOutMap, id) THEN 30 ELSE 0
       /\ a.pattern_scores.shell = IF IsShellIntermediary(id) THEN 35 ELSE 0
       /\ a.pattern_scores.velocity = IF TxPerDayOver15(id) THEN 15 ELSE 0
       /\ tagged <=> IsDampened(id)
       /\ a.suspicion_score = IF tagged THEN Max(0, sum - 30) ELSE Min(100, sum)
       /\ (InDetectedCycle(id) \/ a.in_degree + a.out_degree <= 100) => ~tagged
       /\ a.in_degree + a.out_degree = DegreeOf(id)

\* C21: immediately after the Scorer every account has pattern score
\* cycle 40 iff it is in a detected cycle (40 once, however many cycles),
\* fan_in 30 iff it is a fan-in receiver, fan_out 30 iff it is a fan-out
\* sender, shell 35 iff it is a shell intermediary, velocity 15 iff it has
\* more than 15 transactions a day, each 0 otherwise; its suspicion_score
\* is min(100, sum), or max(0, sum - 30) when it is dampened; an account in
\* a detected cycle or of degree <= 100 is never dampened
C21_ScorerContract ==
    pc = "scored" => \A id \in DOMAIN accountMap : ScoredAsSpecified(accountMap[id])

\* the Scorer has just dampened an account of pattern sum 45 (fan-in and
\* velocity) to the score 15
C21_DampenedAndScored ==
    /\ pc = "scored"
    /\ \E id \in DOMAIN accountMap :
          /\ Includes(accountMap[id].triggered_algorithms, "False Positive Dampening")
          /\ PatternSum(accountMap[id]) = 45
          /\ accountMap[id].suspicion_score = 15

(***************************************************************************)
(* The order of the stages.                                                *)
(***************************************************************************)
StageOrder ==
    <<"start", "graph", "detected", "scored", "rings", "relationship", "temporal",
      "leadership", "multistage", "community", "promoted", "done">>

\* a member of a ring, of at least 2 distinct members, that is in fraudRings
InRingWithPeers(id) ==
    \E i \in 1..Len(fraudRings) :
        /\ Includes(fraudRings[i].members, id)
        /\ Cardinality(Range(fraudRings[i].members)) >= 2

\* the detected cycles whose ring is not in fraudRings
RemovedCycles ==
    {c \in 1..Len(cycles) : \A i \in 1..Len(fraudRings) : fraudRings[i].ring_id # RingId(c)}

\* the leadership pass gives a role exactly to the members of the rings
\* that are left, and a boost to no other account
LeadershipOnValidated ==
    /\ \A i \in CycleRingsOf(fraudRings) : HopsInOrder(fraudRings[i].members)
    /\ \A id \in DOMAIN accountMap :
          /\ accountMap'[id].ring_role # "undefined" <=> InRingWithPeers(id)
          /\ ~InRingWithPeers(id) =>
                /\ accountMap'[id].centrality_score = NoCentrality
                /\ accountMap'[id].suspicion_score = accountMap[id].suspicion_score

\* the multi-stage pass counts the pattern types of the rings that are left
MultiStageOnValidated ==
    \A id \in DOMAIN accountMap :
        accountMap'[id].laundering_stage = "MULTI_STAGE"
            <=> Cardinality(TypesOf(id)) >= 2

\* community detection takes the accounts whose score, boosts included, is
\* positive, computes the risk of a community from these scores and
\* changes no score
CommunityOnBoosted ==
    /\ \A i \in CommunityRingsOf(fraudRings') :
          /\ \A k \in 1..Len(fraudRings'[i].members) :
                accountMap[fraudRings'[i].members[k]].suspicion_score > 0
          /\ fraudRings'[i].risk_score
                = Min(100, RoundDiv(
                     100000 * SumSeq([k \in 1..Len(fraudRings'[i].members) |->
                                 accountMap[fraudRings'[i].members[k]].suspicion_score])
                     + Len(fraudRings'[i].members)
                          * Log2Micro(Len(fraudRings'[i].members) + 1),
                     100000 * Len(fraudRings'[i].members)))
    /\ \A id \in DOMAIN accountMap :
          accountMap'[id].suspicion_score = accountMap[id].suspicion_score

StageStep ==
    /\ \E k \in 1..(Len(StageOrder) - 1) : pc = StageOrder[k] /\ pc' = StageOrder[k + 1]
    /\ (pc = "temporal") => LeadershipOnValidated
    /\ (pc = "leadership") => MultiStageOnValidated
    /\ (pc = "multistage") => CommunityOnBoosted

\* C22: every step of a run of analyzeTransactions takes it from one stage
\* to the next of the fixed order (Scorer, RingBuilder, relationship
\* intelligence, temporal validation, leadership, multi-stage tagging,
\* community detection, fan-in promotion), so no stage runs twice or is
\* skipped; the leadership pass and the multi-stage pass work on the rings
\* left by temporal validation, and community detection on the scores left
\* by the leadership and multi-stage passes
C22_FixedStageOrder == [][StageStep]_vars

\* community detection has run: a community ring has a member with the
\* orchestrator boost and a member with the multi-stage boost, and the ring
\* of a detected cycle has been removed
C22_BoostedBeforeCommunity ==
    /\ pc = "community"
    /\ \E i \in CommunityRingsOf(fraudRings) :
          /\ \E k \in 1..Len(fraudRings[i].members) :
                accountMap[fraudRings[i].members[k]].ring_role = "ORCHESTRATOR"
          /\ \E k \in 1..Len(fraudRings[i].members) :
                accountMap[fraudRings[i].members[k]].laundering_stage = "MULTI_STAGE"
    /\ RemovedCycles # {}

(***************************************************************************)
(* Shell rings and the components of the shell chains.                     *)
(***************************************************************************)
ChainNodes == UNION {Range(shellChains[i]) : i \in 1..Len(shellChains)}

\* consecutive, in either order, on some detected chain
ChainLinked(a, b) ==
    \E i \in 1..Len(shellChains) :
        \E k \in 1..(Len(shellChains[i]) - 1) :
            {shellChains[i][k], shellChains[i][k + 1]} = {a, b}

RECURSIVE ChainReach(_)
ChainReach(S) ==
    LET more == S \cup {b \in ChainNodes : \E a \in S : ChainLinked(a, b)}
    IN IF more = S THEN S ELSE ChainReach(more)

ChainComponents == {ChainReach({n}) : n \in ChainNodes}

ChainsIn(M) == {i \in 1..Len(shellChains) : Range(shellChains[i]) \subseteq M}

\* the first discovered of the chains of M with the most unique nodes
LongestFirst(M) ==
    shellChains[CHOOSE i \in ChainsIn(M) :
        /\ \A j \in ChainsIn(M) :
              Cardinality(Range(shellChains[j])) <= Cardinality(Range(shellChains[i]))
        /\ \A j \in ChainsIn(M) :
              j < i => Cardinality(Range(shellChains[j]))
                          < Cardinality(Range(shellChains[i]))]

OneShellRingPerComponent(rings) ==
    /\ \A M \in ChainComponents :
          \E i \in ShellRingsOf(rings) :
              /\ rings[i].members = LongestFirst(M)
              /\ \A j \in ShellRingsOf(rings) :
                    Range(rings[j].members) \cap M # {} => j = i
    /\ \A i \in ShellRingsOf(rings) :
          \E M \in ChainComponents : Range(rings[i].members) \subseteq M

\* C23: the RingBuilder emits exactly one shell_chain ring for every
\* connected component of the undirected union graph of the detected shell
\* chains; its members are the chain of the component with the most unique
\* nodes, the first discovered among those with equally many
C23_OneShellRingPerComponent ==
    AfterRings =>
        /\ OneShellRingPerComponent(fraudRings)
        /\ pc = "done" => OneShellRingPerComponent(result.fraudRings)

\* the rings are built: the ring of a component is a chain that was
\* discovered before another chain of the component with as many nodes,
\* and after a shorter one
C23_TieAndShorter ==
    /\ pc = "rings"
    /\ \E i \in ShellRingsOf(fraudRings) :
          \E a, b, c \in 1..Len(shellChains) :
              /\ a < b /\ b < c
              /\ shellChains[b] = fraudRings[i].members
              /\ Range(shellChains[a]) \subseteq ChainReach(Range(shellChains[b]))
              /\ Range(shellChains[c]) \subseteq ChainReach(Range(shellChains[b]))
              /\ Len(shellChains[a]) < Len(shellChains[b])
              /\ Len(shellChains[c]) = Len(shellChains[b])

(***************************************************************************)
(* The lengths of the shell chains.                                        *)
(***************************************************************************)
\* the input is one simple directed path, its hops listed in order
IsSinglePath ==
    /\ Len(allNodes) = Len(transactions) + 1
    /\ \A i \in 1..Len(transactions) :
          /\ transactions[i].sender_id = allNodes[i]
          /\ transactions[i].receiver_id = allNodes[i + 1]

\* C24: where shell detection runs on an input that is one simple directed
\* path of h hops, 3 <= h <= 6 (every intermediate then has 2
\* transactions), the path of all h hops is among the detected shell
\* chains; no detected chain, on any input, has more than 6 hops
C24_FullPathEmitted ==
    (pc = "detected" /\ runShell) =>
        /\ (IsSinglePath /\ Len(transactions) >= 3 /\ Len(transactions) <= 6) =>
              Includes(shellChains, allNodes)
        /\ \A i \in 1..Len(shellChains) : Len(shellChains[i]) - 1 <= 6

(***************************************************************************)
(* Roles in a ring.                                                        *)
(***************************************************************************)
\* the rings the leadership pass processes
LedRingIndexes == {i \in 1..Len(fraudRings) : Cardinality(Range(fraudRings[i].members)) >= 2}

CentralityIn(i) ==
    brandesBetweenness(fraudRings[i].members,
                       buildRingEdges(Range(fraudRings[i].members), transactions))

\* the rank of position k of ring i, given the members' centralities c: the
\* number of positions of greater centrality, or of equal centrality and
\* earlier in the ring
RankOf(i, k, c) ==
    Cardinality({j \in 1..Len(fraudRings[i].members) :
        \/ RatLess(c[fraudRings[i].members[k]], c[fraudRings[i].members[j]])
        \/ /\ ~RatLess(c[fraudRings[i].members[j]], c[fraudRings[i].members[k]])
           /\ j < k})

RoleAt(rank, size) ==
    IF rank = 0 THEN "ORCHESTRATOR"
    ELSE IF size <= 3 THEN "PERIPHERAL"
    ELSE IF 100 * rank < 66 * size THEN "INTERMEDIARY"
    ELSE "PERIPHERAL"

\* the positions <<i, k>> at which the account is a member of a processed ring
PositionsOf(id) ==
    {p \in LedRingIndexes \X (1..(Len(allNodes) + 1)) :
        p[2] <= Len(fraudRings[p[1]].members) /\ fraudRings[p[1]].members[p[2]] = id}

RolesAsRanked ==
    /\ \A i \in LedRingIndexes :
          LET c == CentralityIn(i)
              n == Len(fraudRings[i].members)
              top == {k \in 1..n : RankOf(i, k, c) = 0}
          IN /\ Cardinality(top) = 1
             /\ \A k \in top : \A j \in 1..n :
                   ~RatLess(c[fraudRings[i].members[k]], c[fraudRings[i].members[j]])
             /\ (\A j \in 1..n : c[fraudRings[i].members[j]].n = 0) => top = {1}
    /\ \A id \in DOMAIN accountMap :
          LET at == PositionsOf(id)
          IN /\ accountMap'[id].suspicion_score # accountMap[id].suspicion_score =>
                   \E p \in at : RankOf(p[1], p[2], CentralityIn(p[1])) = 0
             /\ Cardinality(at) = 1 =>
                   \A p \in at :
                       accountMap'[id].ring_role
                           = RoleAt(RankOf(p[1], p[2], CentralityIn(p[1])),
                                    Len(fraudRings[p[1]].members))
             /\ at = {} => accountMap'[id].ring_role = "undefined"

\* C25: in every ring of at least 2 distinct members that the leadership
\* pass processes, exactly one position has rank 0 in the stable
\* descending order of centrality, and its centrality is the greatest of
\* the ring; when all centralities of the ring are 0 it is the first
\* position, the hub of a fan ring; only accounts at rank 0 of a ring have
\* their score raised; an account at one position only is ORCHESTRATOR at
\* rank 0, else PERIPHERAL in a ring of at most 3, else INTERMEDIARY at a
\* rank below ceil(0.66 * size) and PERIPHERAL at the others
C25_RolesByRank == [][(pc = "temporal" /\ pc' = "leadership") => RolesAsRanked]_vars

\* after the pass: in a fan ring whose members all have centrality 0 the
\* hub is ORCHESTRATOR and boosted, and the other members, INTERMEDIARY
\* and PERIPHERAL, have score 0
C25_StarLedByHub ==
    /\ pc = "leadership"
    /\ \E i \in LedRingIndexes :
          LET m == fraudRings[i].members
          IN /\ fraudRings[i].pattern_type = "fan_in"
             /\ \A j \in 1..Len(m) : CentralityIn(i)[m[j]].n = 0
             /\ accountMap[m[1]].ring_role = "ORCHESTRATOR"
             /\ accountMap[m[1]].suspicion_score = 40
             /\ \E j \in 2..Len(m) : accountMap[m[j]].ring_role = "INTERMEDIARY"
             /\ \E j \in 2..Len(m) : accountMap[m[j]].ring_role = "PERIPHERAL"
             /\ \A j \in 2..Len(m) : accountMap[m[j]].suspicion_score = 0

(***************************************************************************)
(* validateAndParseCSV: warnings and errors.                               *)
(***************************************************************************)
CsvReturned == csv.at = "returned" /\ csv.i > 0

\* the data lines that are not blank, by line number
DataLines == {j \in 2..Len(csv.lines) : ~IsBlankLine(csv.lines[j])}

Field(j, col) == Trim(csv.lines[j][csv.colIdx[col]])

HasColumns(j) == Len(csv.lines[j]) >= csv.nHeaders

\* a line with every required field present, a positive amount and a
\* timestamp in the format or parseable
IsValidRow(j) ==
    /\ HasColumns(j)
    /\ Field(j, "transaction_id") # ""
    /\ Field(j, "sender_id") # ""
    /\ Field(j, "receiver_id") # ""
    /\ ~parseFloat(Field(j, "amount")).nan
    /\ parseFloat(Field(j, "amount")).thousandths > 0
    /\ Field(j, "timestamp") \in {"2024-01-01 10:00:00", "9999-99-99 99:99:99",
                                  "2024-01-01T10:00:00"}

IsSelfTransfer(j) == Field(j, "sender_id") = Field(j, "receiver_id")

\* the transaction_id is that of an earlier line that had one
IsRepeatedId(j) ==
    \E k \in DataLines :
        /\ k < j
        /\ HasColumns(k)
        /\ Field(k, "transaction_id") = Field(j, "transaction_id")

AsTransaction(j) ==
    [transaction_id |-> Field(j, "transaction_id"),
     sender_id |-> Field(j, "sender_id"),
     receiver_id |-> Field(j, "receiver_id"),
     amount |-> RoundToCents(parseFloat(Field(j, "amount")).thousandths),
     timestamp |-> Field(j, "timestamp")]

WarnedRows == {j \in DataLines : IsValidRow(j) /\ (IsSelfTransfer(j) \/ IsRepeatedId(j))}

\* the warnings and errors of the valid and of the other rows
WarningsOnly ==
    /\ \A j \in WarnedRows :
          /\ IsSelfTransfer(j) => Includes(csv.result.warnings, <<j, "Self-transfer">>)
          /\ IsRepeatedId(j) =>
                Includes(csv.result.warnings, <<j, "Duplicate transaction_id">>)
    /\ \A j \in DataLines :
          IsValidRow(j) <=> \A e \in 1..Len(csv.errors) : csv.errors[e][1] # j
    /\ csv.result.success <=> \A j \in DataLines : IsValidRow(j)
    /\ \A t \in 1..Len(csv.result.transactions) :
          \E j \in DataLines : IsValidRow(j) /\ AsTransaction(j) = csv.result.transactions[t]

\* the valid rows in the order of the file
ValidRows ==
    LET js == SelectSeq([j \in 1..Len(csv.lines) |-> j],
                        LAMBDA j : j \in DataLines /\ IsValidRow(j))
    IN [k \in 1..Len(js) |-> AsTransaction(js[k])]

\* C26 as stated: every row that is valid but for a self-transfer or a
\* repeated transaction_id is among the returned transactions, has its
\* warning and no error, and does not make success false; no row with an
\* error is among the returned transactions
C26_WarnedRowsReturned ==
    CsvReturned =>
        /\ WarningsOnly
        /\ \A j \in WarnedRows : AsTransaction(j) \in Range(csv.result.transactions)

\* C26 as amended: the same, but the rows are returned only when at most
\* 10 rows have an error: then the returned transactions are the valid
\* rows, in order, self-transfers and repeated ids among them; with more
\* than 10 errors no transaction is returned and success is false
C26_WarnedRowsParsed ==
    CsvReturned =>
        /\ WarningsOnly
        /\ csv.result.transactions
              = IF Cardinality({j \in DataLines : ~IsValidRow(j)}) <= 10
                THEN ValidRows ELSE <<>>

\* a file was accepted with a self-transfer and a repeated id among its
\* transactions, and a warning for each
C26_AcceptedWithWarnings ==
    /\ CsvReturned
    /\ csv.result.success
    /\ \E j, k \in WarnedRows :
          /\ IsSelfTransfer(j)
          /\ IsRepeatedId(k) /\ ~IsSelfTransfer(k)
          /\ AsTransaction(j) \in Range(csv.result.transactions)
          /\ AsTransaction(k) \in Range(csv.result.transactions)
          /\ Len(csv.result.warnings) = 2

(***************************************************************************)
(* The ring_ids of the members of a community.                             *)
(***************************************************************************)
\* the ids of the community rings the account is a member of
CommunityIdsOf(rings, id) ==
    {rings[i].ring_id : i \in {j \in CommunityRingsOf(rings) : Includes(rings[j].members, id)}}

CommunityOnly(accounts, suspicious, rings) ==
    /\ \A i, j \in CommunityRingsOf(rings) :
          i # j => Range(rings[i].members) \cap Range(rings[j].members) = {}
    /\ \A k \in 1..Len(accounts) :
          \A c \in CommunityIdsOf(rings, accounts[k].account_id) :
              accounts[k].ring_ids = <<c>>
    /\ \A k \in 1..Len(suspicious) :
          \A c \in CommunityIdsOf(rings, suspicious[k].account_id) :
              suspicious[k].ring_id = c

\* C27: after community detection the community rings are pairwise
\* disjoint and every member of a community ring has ring_ids equal to the
\* one-element list of that ring's id, which is then the ring_id the result
\* reports for it
C27_CommunityMembersHaveOneRingId ==
    AfterCommunity =>
        /\ CommunityOnly([i \in 1..Len(allNodes) |-> accountMap[allNodes[i]]], <<>>,
                         fraudRings)
        /\ pc = "done" =>
              CommunityOnly(result.accounts, result.suspicious_accounts, result.fraudRings)

\* a returned member of a community ring is a member of two pattern rings
\* that are still returned, and another account keeps a pattern ring id
C27_TwoRingsSubsumed ==
    /\ pc = "done"
    /\ \E k \in 1..Len(result.suspicious_accounts) :
          LET id == result.suspicious_accounts[k].account_id
          IN /\ CommunityIdsOf(result.fraudRings, id) # {}
             /\ Cardinality({i \in PatternRingsOf(result.fraudRings) :
                                Includes(result.fraudRings[i].members, id)}) >= 2
    /\ \E k \in 1..Len(result.accounts) :
          /\ result.accounts[k].ring_ids # <<>>
          /\ CommunityIdsOf(result.fraudRings, result.accounts[k].account_id) = {}

\* the counterparties of hub in txs: the senders paying it (receiver_id) or
\* the receivers it pays (sender_id)
Counterparties(txs, groupField, memberField, hub) ==
    {txs[i][memberField] : i \in {j \in 1..Len(txs) : txs[j][groupField] = hub}}

\* an entry of a fan map records exactly 10 distinct counterparties of its hub
TenRecorded(fanMap, groupField, memberField) ==
    \A i \in 1..Len(fanMap) :
        /\ Len(fanMap[i].members) = MinFanCount
        /\ Cardinality(Range(fanMap[i].members)) = MinFanCount
        /\ Range(fanMap[i].members)
              \subseteq Counterparties(transactions, groupField, memberField,
                                       fanMap[i].hub)

\* every fan ring of rings has 11 members
FanRingsOfEleven(rings) ==
    \A i \in 1..Len(rings) :
        rings[i].pattern_type \in {"fan_in", "fan_out"} =>
            /\ rings[i].member_count = MinFanCount + 1
            /\ Len(rings[i].members) = MinFanCount + 1

\* C28: the sender set recorded for a fan-in receiver and the receiver set
\* recorded for a fan-out sender hold exactly 10 distinct accounts, however
\* many more fall in the same 72-hour window, and every fan_in and fan_out
\* ring has member_count = 11
C28_FanRecordsTen ==
    /\ pc \notin {"start", "graph"} =>
          /\ TenRecorded(fanInMap, "receiver_id", "sender_id")
          /\ TenRecorded(fanOutMap, "sender_id", "receiver_id")
    /\ AfterRings => FanRingsOfEleven(fraudRings)
    /\ pc = "done" => FanRingsOfEleven(result.fraudRings)

\* a receiver paid by more than 10 senders within one 72-hour window is
\* returned in a fan_in ring
C28_MoreSendersInWindow ==
    /\ pc = "done"
    /\ \E i \in 1..Len(fanInMap) :
          /\ Cardinality(Counterparties(transactions, "receiver_id", "sender_id",
                                        fanInMap[i].hub)) > MinFanCount
          /\ \A j, k \in 1..Len(transactions) :
                Time(transactions[j].timestamp) - Time(transactions[k].timestamp)
                    <= Window72h
          /\ \E r \in 1..Len(result.fraudRings) :
                /\ result.fraudRings[r].pattern_type = "fan_in"
                /\ result.fraudRings[r].members[1] = fanInMap[i].hub

\* account a is flagged as a shell intermediary by the scorer
FlaggedShell(a) ==
    a.pattern_scores.shell = ShellWeight /\ Includes(a.detected_patterns, "shell_chain")

\* id is a member of a shell_chain ring of rings
InSomeShellRing(id, rings) ==
    \E i \in 1..Len(rings) :
        rings[i].pattern_type = "shell_chain" /\ Includes(rings[i].members, id)

\* C29: every account flagged as a shell intermediary (pattern_scores.shell
\* = 35 and 'shell_chain' in detected_patterns) is a member of a shell_chain
\* ring of fraud_rings, from ring construction to the returned result
C29_ShellFlaggedInShellRing ==
    /\ AfterRings =>
          \A id \in DOMAIN accountMap :
              FlaggedShell(accountMap[id]) => InSomeShellRing(id, fraudRings)
    /\ pc = "done" =>
          \A k \in 1..Len(result.accounts) :
              FlaggedShell(result.accounts[k]) =>
                  InSomeShellRing(result.accounts[k].account_id, result.fraudRings)

\* the evidence categories a community ring was accepted on
EvidencesOf(ring) == ring.explanation[4]

\* every community ring of rings that counts the cycle category has a member
\* in a cycle ring of rings
CycleEvidenceSurvives(rings) ==
    \A i \in CommunityRingsOf(rings) :
        Includes(EvidencesOf(rings[i]), "cycle") =>
            \E k \in 1..Len(rings[i].members) :
                InSomeCycleRing(rings[i].members[k], rings)

\* C30: a community ring counts the 'cycle' evidence category only when one
\* of its members belongs to a cycle ring that survived temporal validation
\* and is present in fraud_rings
C30_CycleEvidenceFromSurvivingRings ==
    /\ AfterCommunity => CycleEvidenceSurvives(fraudRings)
    /\ pc = "done" => CycleEvidenceSurvives(result.fraudRings)
====
